---- MODULE Spec2Model ----
(***************************************************************************)
(* Model of the real-time RAG update pipeline: the Kafka consumer loop     *)
(* (update_service.consume_kafka_events), the event processor              *)
(* (EventProcessor), the retry helper (retry_with_backoff), the vector     *)
(* store client, the cache client and the dead-letter sink; and of the     *)
(* query path: the cache service (CacheService) and the query processor    *)
(* (QueryProcessor).                                                       *)
(*                                                                         *)
(* Python values are represented as follows.                               *)
(*   dict            a function from its keys (strings) to its values      *)
(*   Optional[dict]  <<>> for None, <<d>> for a dict d                     *)
(*   JSON value      a tagged record: JNull, JScalar, JDict(d)             *)
(*   str             a TLA+ string; id strings are "ab12" (a UUID in       *)
(*                   canonical lower-case form), "AB12" (the same UUID     *)
(*                   written in upper case) and "doc-1" (no UUID at all)   *)
(***************************************************************************)
EXTENDS Integers, Sequences, FiniteSets, Bags, TLC

VARIABLES
    \* ---- update pipeline ----
    pc,          \* position of the consumer loop
    msg,         \* the message being handled (or the last one handled)
    attempt,     \* loop variable `attempt` of the running retry_with_backoff
    embeddings,  \* result of the embedding call of the running event
    store,       \* the vector store collection: a bag of points
    cache,       \* the cache: a function from keys to stored values
    dlqTopic,    \* the messages appended to the DLQ topic, in order
    nextOffset,  \* per partition, the offset of the next message delivered
    eff,         \* what the handling of msg has done so far
    outcome,     \* how the handling of msg ended
    error,       \* str(e) of the exception that ended it, "" if none
    dlqCall,     \* the send_failed_event calls made for msg: arguments, error
    redelivered, \* msg repeats the message before it, which wrote its points
    current,     \* per id string, the last create/update processed for it
    failed,      \* the (partition, offset) pairs whose handling raised
    config,      \* process configuration: clients and DLQ switch
    \* ---- retry_with_backoff on its own ----
    rt,
    \* ---- _parse_event on its own ----
    raw,
    parsed,
    \* ---- cache service ----
    redis,        \* the Redis keyspace: a function from keys to stored strings
    cache_client, \* CacheService.client is set (connect succeeded)
    cres,         \* the last CacheService call and what it gave
    \* ---- query processor ----
    world,        \* what vector search and the LLM answer in this behaviour
    req,          \* the request of the last process_query call
    qres,         \* what that call gave: a response or an error
    qeff,         \* the calls it made
    qhist,        \* the call before it: how it ended, and whether its
                  \* request was the same
    \* ---- _build_context, _filter_sources, _paginate_sources on their own
    bc,
    fs,
    pg,
    \* ---- relational store (DatabaseService) ----
    db,           \* the documents table: a function from ids to rows
    dbres,        \* the last DatabaseService call and what it gave
    \* ---- batch processor ----
    bp,           \* the BatchProcessor object, its timer task and the clock
    \* ---- service container and lifespan of the update service ----
    lc,           \* the clients, the consumer task and the calls made so far
    \* ---- metrics tracker ----
    mt            \* a sample buffer and the last get on it

pipelineVars == <<pc, msg, attempt, embeddings, store, cache, dlqTopic,
                  nextOffset, eff, outcome, error, dlqCall, redelivered,
                  current, failed, config>>
retryVars == <<rt>>
parseVars == <<raw, parsed>>
cacheVars == <<redis, cache_client, cres>>
queryVars == <<world, req, qres, qeff, qhist>>
contextVars == <<bc>>
filterVars == <<fs>>
pageVars == <<pg>>
databaseVars == <<db, dbres>>
batchVars == <<bp>>
\* the components that run on their own
lifespanVars == <<lc>>
metricsVars == <<mt>>
standaloneVars == <<databaseVars, batchVars, lifespanVars, metricsVars>>
\* the variables of the query service
queryServiceVars == <<cacheVars, queryVars, contextVars, filterVars, pageVars>>
\* the variables of the update service
updateServiceVars == <<pipelineVars, retryVars, parseVars>>
vars == <<updateServiceVars, queryServiceVars, standaloneVars>>

----------------------------------------------------------------------------
(* Bounds of the model *)

\* number of messages the consumer is delivered in one behaviour
MaxMessages == 2
\* largest max_retries passed explicitly to retry_with_backoff
MaxRetriesArg == 4
\* longest list of matches given to _build_context
MaxMatches == 3
\* longest list of sources given to _filter_sources
MaxFilterSources == 3
\* longest list of sources given to _paginate_sources
MaxPageSources == 6
\* largest page and largest page_size given to _paginate_sources
MaxPage == 4
MaxPageSize == 4

(* Program constants *)

\* settings.max_retries
settings_max_retries == 3
\* settings.retry_delay_seconds
settings_retry_delay_seconds == 1
\* settings.retry_backoff_multiplier
settings_retry_backoff_multiplier == 2
\* the value of an Optional[int] / Optional[float] argument left at None
NotPassed == -1

----------------------------------------------------------------------------
(* Python and JSON values *)

NoneStr == "None"

\* Optional[dict]
NoneDict == <<>>
Some(d) == <<d>>

\* dict.get(k, default)
Get(d, k, default) == IF k \in DOMAIN d THEN d[k] ELSE default

\* truth value of a str or None
Truthy(v) == v # NoneStr /\ v # ""

JNull == [t |-> "null"]
JScalar == [t |-> "scalar"]
JDict(d) == [t |-> "dict", d |-> d]
IsDict(j) == j.t = "dict"

\* the dict with the single key k, and the choice between it and no key
Entry(k, v) == k :> v
EmptyDict == [k \in {} |-> ""]
Opt(k, vals) == {EmptyDict} \cup {Entry(k, v) : v \in vals}

----------------------------------------------------------------------------
(* EventProcessor._parse_event *)

\* k.startswith("__"), over the keys events carry
StartsWithDunder(k) == k \in {"__op", "__deleted", "__source_ts_ms"}

\* a or b, for str-or-None values
PyOr(a, b) == IF Truthy(a) THEN a ELSE b

DocumentEvent(op, before, after, ts_ms) ==
    [op |-> op, before |-> before, after |-> after, ts_ms |-> ts_ms]

ParseEvent_deletedOnlyWithoutOp(event_data) ==
    LET explicit == PyOr(Get(event_data, "__op", NoneStr),
                         Get(event_data, "op", NoneStr))
        op == IF Truthy(explicit) THEN explicit
              ELSE IF Get(event_data, "__deleted", NoneStr) = "true" THEN "d"
              ELSE "c"
        ts_ms == PyOr(Get(event_data, "__source_ts_ms", NoneStr),
                      Get(event_data, "ts_ms", NoneStr))
        filtered_data == [k \in {x \in DOMAIN event_data : ~StartsWithDunder(x)}
                            |-> event_data[k]]
    IN  IF DOMAIN filtered_data = {} THEN <<>>
        ELSE IF op = "d"
             THEN <<DocumentEvent(op, Some(filtered_data), NoneDict,
                                  PyOr(ts_ms, "now"))>>
             ELSE <<DocumentEvent(op, NoneDict, Some(filtered_data),
                                  PyOr(ts_ms, "now"))>>

\* Optional[DocumentEvent]: <<>> for None, <<event>> otherwise
ParseEvent(event_data) ==
    LET op0 == PyOr(Get(event_data, "__op", NoneStr),
                    Get(event_data, "op", "c"))
        ts_ms == PyOr(Get(event_data, "__source_ts_ms", NoneStr),
                      Get(event_data, "ts_ms", NoneStr))
        op == IF Get(event_data, "__deleted", NoneStr) = "true" THEN "d" ELSE op0
        filtered_data == [k \in {x \in DOMAIN event_data : ~StartsWithDunder(x)}
                            |-> event_data[k]]
    IN  IF DOMAIN filtered_data = {} THEN <<>>
        ELSE IF op = "d"
             THEN <<DocumentEvent(op, Some(filtered_data), NoneDict,
                                  PyOr(ts_ms, "now"))>>
             ELSE <<DocumentEvent(op, NoneDict, Some(filtered_data),
                                  PyOr(ts_ms, "now"))>>

\* the event payloads _parse_event is applied to
RawEvents ==
    { a @@ b @@ c @@ d @@ e @@ f @@ g :
        a \in Opt("__op", {"c", "u", "d", "r", ""}),
        b \in Opt("op", {"c", "u", "d", "r"}),
        c \in Opt("__deleted", {"true", "false"}),
        d \in Opt("id", {"ab12"}),
        e \in Opt("content", {"S"}),
        f \in Opt("__source_ts_ms", {"t1"}),
        g \in Opt("ts_ms", {"t2"}) }

----------------------------------------------------------------------------
(* ChunkingService *)

\* self.splitter.split_text(content): "S" is a text of one chunk, "L" a text
\* of two chunks; the empty text and the blank text "ws" have no chunk
SplitText(content) ==
    CASE content = "S" -> <<"S#0">>
      [] content = "L" -> <<"L#0", "L#1">>
      [] OTHER -> <<>>

\* _generate_chunk_uuid: uuid5(nil, f"{document_id}:{chunk_index}"), an
\* injective function of the pair
ChunkUuid(document_id, chunk_index) == <<document_id, chunk_index>>

\* chunk_document
ChunkDocument(content, document_id) ==
    [i \in 1..Len(SplitText(content)) |->
        [id |-> ChunkUuid(document_id, i - 1),
         content |-> SplitText(content)[i],
         chunk_index |-> i - 1,
         document_id |-> document_id]]

----------------------------------------------------------------------------
(* EmbeddingService *)

\* the vectors the provider returns for texts, in input order
GenerateEmbeddings(texts) == [i \in 1..Len(texts) |-> <<"vec", texts[i]>>]

----------------------------------------------------------------------------
(* VectorDBService *)

BuildPoints_version1(chunks, embs, document_id, version) ==
    [i \in 1..Len(chunks) |->
        [id |-> chunks[i].id,
         vector |-> embs[i],
         payload |-> [document_id |-> document_id,
                      content |-> chunks[i].content,
                      chunk_index |-> chunks[i].chunk_index,
                      version |-> 1]]]

\* upsert_chunks, lines 111-124: the points built from chunks and embeddings
BuildPoints(chunks, embs, document_id, version) ==
    [i \in 1..Len(chunks) |->
        [id |-> chunks[i].id,
         vector |-> embs[i],
         payload |-> [document_id |-> document_id,
                      content |-> chunks[i].content,
                      chunk_index |-> chunks[i].chunk_index,
                      version |-> version]]]

PointSet(points) == {points[i] : i \in 1..Len(points)}

ClientUpsert_append(coll, points) == coll (+) SetToBag(PointSet(points))

ClientUpsert_replacesDocument(coll, points) ==
    LET docs == {p.payload.document_id : p \in PointSet(points)}
        kept == [p \in {q \in DOMAIN coll : q.payload.document_id \notin docs}
                    |-> coll[p]]
    IN  kept (+) SetToBag(PointSet(points))

ClientUpsert_keepsNewer(coll, points) ==
    LET Newer(p) == \E q \in DOMAIN coll :
                       q.id = p.id /\ q.payload.version > p.payload.version
        written == {p \in PointSet(points) : ~Newer(p)}
        ids == {p.id : p \in written}
        kept == [p \in {q \in DOMAIN coll : q.id \notin ids} |-> coll[p]]
    IN  kept (+) SetToBag(written)

\* self.client.upsert: every point replaces the stored point of the same id
ClientUpsert(coll, points) ==
    LET ids == {p.id : p \in PointSet(points)}
        kept == [p \in {q \in DOMAIN coll : q.id \notin ids} |-> coll[p]]
    IN  kept (+) SetToBag(PointSet(points))

\* self.client.delete with the filter payload.document_id == document_id
ClientDelete(coll, document_id) ==
    [p \in {q \in DOMAIN coll : q.payload.document_id # document_id} |-> coll[p]]

----------------------------------------------------------------------------
(* DocumentEvent.get_document_id *)

\* the strings uuid.UUID accepts, and str(UUID(s)) for each
UuidStrings == {"ab12", "AB12"}
StrOfUuid(s) == IF s = "AB12" THEN "ab12" ELSE s

\* [status |-> "none" | "ValueError" | "ok", id |-> str(UUID(data["id"]))]
GetDocumentId(event) ==
    LET data == IF event.after # NoneDict /\ DOMAIN event.after[1] # {}
                THEN event.after ELSE event.before
    IN  IF data # NoneDict /\ DOMAIN data[1] # {} /\ "id" \in DOMAIN data[1]
        THEN IF data[1]["id"] \in UuidStrings
             THEN [status |-> "ok", id |-> StrOfUuid(data[1]["id"])]
             ELSE [status |-> "ValueError", id |-> ""]
        ELSE [status |-> "none", id |-> ""]

----------------------------------------------------------------------------
(* retry_with_backoff *)

IsInstance_everyError(kind, exceptions) == TRUE

\* isinstance(e, exceptions) for an error of class kind
IsInstance(kind, exceptions) == "Exception" \in exceptions \/ kind \in exceptions

\* `max_retries or settings.max_retries` and its two siblings
OrDefault(arg, default) == IF arg = NotPassed \/ arg = 0 THEN default ELSE arg

OnError_offByOne(attempt_no, max_retries, kind, exceptions) ==
    IF ~IsInstance(kind, exceptions) THEN "propagate"
    ELSE IF attempt_no < max_retries - 1 THEN "sleep"
    ELSE "raise"

\* what the loop body does with an error of class kind raised by attempt
\* number attempt: "propagate" it uncaught, "sleep" and go on, or leave the
\* loop and "raise" last_exception
OnError(attempt_no, max_retries, kind, exceptions) ==
    IF ~IsInstance(kind, exceptions) THEN "propagate"
    ELSE IF attempt_no < max_retries THEN "sleep"
    ELSE "raise"

RECURSIVE Pow(_, _)
Pow(b, e) == IF e = 0 THEN 1 ELSE b * Pow(b, e - 1)

\* wait_time = delay * (backoff_multiplier ** attempt)
WaitTime(delay, backoff_multiplier, attempt_no) ==
    delay * Pow(backoff_multiplier, attempt_no)

----------------------------------------------------------------------------
(* The messages of the documents topic *)

\* the partitions of the topic assigned to the consumer
Partitions == {0}
kafka_topic_documents == "documents.public.documents"

\* create and update events that carry an id and a text with chunks: a
\* create without version (version 1) and an update with version 2
UpsertEvents ==
    { Entry("__op", "c") @@ Entry("id", "ab12") @@ Entry("content", c) :
        c \in {"S", "L"} }
    \cup
    { Entry("__op", "u") @@ Entry("id", "ab12") @@ Entry("content", c)
        @@ Entry("version", 2) : c \in {"S", "L"} }
    \cup
    { Entry("__op", "c") @@ Entry("id", "AB12") @@ Entry("content", "S") }

\* events with a part missing: no id, empty content, blank content, an
\* operation that is none of c/u/d, nothing but "__" keys, a delete without id
MalformedEvents ==
    { Entry("__op", "c") @@ Entry("content", "S"),
      Entry("op", "u") @@ Entry("id", "ab12") @@ Entry("content", ""),
      Entry("id", "ab12") @@ Entry("content", "ws"),
      Entry("__op", "r") @@ Entry("id", "ab12") @@ Entry("content", "S"),
      Entry("__op", "c") @@ Entry("__source_ts_ms", "t1"),
      Entry("op", "d") @@ Entry("ts_ms", "t2") }

\* delete events, as rewritten by the connector and as plain op = d
DeleteEvents ==
    { Entry("__op", "d") @@ Entry("__deleted", "true") @@ Entry("id", i) :
        i \in UuidStrings \cup {"doc-1"} }
    \cup { Entry("op", "u") @@ Entry("__deleted", "true") @@ Entry("id", "ab12") }

Events == UpsertEvents \cup MalformedEvents \cup DeleteEvents

\* a create event in the nested change-event shape: the columns of the row
\* are inside the `after` object, none of them is a top-level key
NestedEvents ==
    { Entry("op", "c") @@ Entry("before", JNull) @@ Entry("ts_ms", "t2")
        @@ Entry("after", JDict(Entry("id", "ab12") @@ Entry("content", "S"))) }

\* message.value after json.loads: flat events, a wrapped event, a wrapper
\* around null, null, and a JSON value that is no object
MessageValues ==
    { JDict(e) : e \in Events \cup NestedEvents }
    \cup { JDict(Entry("payload", JDict(e))) : e \in NestedEvents }
    \cup { JDict(Entry("payload",
              JDict(Entry("__op", "c") @@ Entry("id", "ab12")
                    @@ Entry("content", "S")))),
           JDict(Entry("payload", JNull)),
           JNull,
           JScalar }

----------------------------------------------------------------------------
(* consume_kafka_events and EventProcessor.process_event *)

\* lines 90-92: unwrap the "payload" envelope
EventData(value) ==
    IF IsDict(value) /\ "payload" \in DOMAIN value.d
    THEN value.d["payload"] ELSE value

\* the parsed event of a message whose event data is an object
EventOf(m) == ParseEvent(EventData(m.value).d)

AfterOf_readsNestedAfter(event) ==
    IF event.after = NoneDict THEN EmptyDict
    ELSE IF "after" \in DOMAIN event.after[1] THEN event.after[1]["after"].d
    ELSE event.after[1]

\* the fields _handle_create_or_update reads from event.after
AfterOf(event) == IF event.after = NoneDict THEN EmptyDict ELSE event.after[1]
DocIdOf(event) == Get(AfterOf(event), "id", NoneStr)
ContentOf(event) == Get(AfterOf(event), "content", "")
VersionOf(event) == Get(AfterOf(event), "version", 1)

Dispatch_anyOtherOpIsUpsert(event_data) ==
    LET p == ParseEvent(event_data) IN
    IF p = <<>> THEN "return"
    ELSE IF p[1].op = "d"
         THEN CASE GetDocumentId(p[1]).status = "none" -> "return"
                [] GetDocumentId(p[1]).status = "ValueError" -> "raise"
                [] OTHER -> "delete"
    ELSE IF AfterOf(p[1]) = EmptyDict THEN "return"
    ELSE IF ~Truthy(DocIdOf(p[1])) \/ ~Truthy(ContentOf(p[1])) THEN "return"
    ELSE IF ChunkDocument(ContentOf(p[1]), DocIdOf(p[1])) = <<>> THEN "return"
    ELSE "upsert"

\* process_event up to its first await: what the event is dispatched to
Dispatch(event_data) ==
    LET p == ParseEvent(event_data) IN
    IF p = <<>> THEN "return"
    ELSE IF p[1].op = "d"
         THEN CASE GetDocumentId(p[1]).status = "none" -> "return"
                [] GetDocumentId(p[1]).status = "ValueError" -> "raise"
                [] OTHER -> "delete"
    ELSE IF p[1].op \in {"c", "u"}
         THEN IF AfterOf(p[1]) = EmptyDict THEN "return"
              ELSE IF ~Truthy(DocIdOf(p[1])) \/ ~Truthy(ContentOf(p[1]))
                   THEN "return"
              ELSE IF ChunkDocument(ContentOf(p[1]), DocIdOf(p[1])) = <<>>
                   THEN "return"
              ELSE "upsert"
    ELSE "return"

NoEffect == [embedCalls |-> 0, upsertCalls |-> 0, writes |-> 0,
             deletes |-> 0, cacheDeletes |-> 0]

NoCurrent == [s \in UuidStrings \cup {"doc-1"} |-> <<>>]

\* the create/update event now standing for its id string, once process_event
\* has returned for message m
Processed(cur, m) ==
    LET j == EventData(m.value) IN
    IF ~IsDict(j) \/ EventOf(m) = <<>> THEN cur
    ELSE LET e == EventOf(m)[1] IN
         IF e.op \in {"c", "u"} /\ DocIdOf(e) \in DOMAIN cur
         THEN [cur EXCEPT ![DocIdOf(e)] =
                  <<[content |-> ContentOf(e), version |-> VersionOf(e)]>>]
         ELSE cur

\* the arguments of the running create/update
JobDocId == DocIdOf(EventOf(msg)[1])
JobVersion == VersionOf(EventOf(msg)[1])
JobChunks == ChunkDocument(ContentOf(EventOf(msg)[1]), JobDocId)
JobTexts == [i \in 1..Len(JobChunks) |-> JobChunks[i].content]

RetryLimit_noRetry == OrDefault(NotPassed, 0)

\* retry_with_backoff called without max_retries
RetryLimit == OrDefault(NotPassed, settings_max_retries)

Raise_swallowed(e) ==
    /\ pc' = "poll"
    /\ outcome' = "raised"
    /\ error' = e
    /\ failed' = failed \cup {<<msg.partition, msg.offset>>}

\* the exception e leaves process_event and reaches the except branch of the
\* consumer loop
Raise(e) ==
    /\ pc' = "dlq"
    /\ outcome' = "raised"
    /\ error' = e
    /\ failed' = failed \cup {<<msg.partition, msg.offset>>}

\* hashlib.md5(query.encode()).hexdigest(), taken as free of collisions
Md5(query) == <<"md5", query>>

\* _get_cache_key
GetCacheKey(query) == <<"query_response", "v2", Md5(query)>>

\* the key f"query:{document_id}"
InvalidationKey(document_id) == <<"query", document_id>>

InvalidateCache_dropsResponses(c, document_id) ==
    [k \in {x \in DOMAIN c : x # InvalidationKey(document_id)
                              /\ x[1] # "query_response"} |-> c[k]]

\* await self.cache_service.delete(f"query:{document_id}")
InvalidateCache(c, document_id) ==
    [k \in DOMAIN c \ {InvalidationKey(document_id)} |-> c[k]]

\* the cache when the consumer starts: a response the query service has
\* stored for a query, and an entry under the key of a document
CacheAtStart ==
    (GetCacheKey("q1") :> "response") @@ (InvalidationKey("ab12") :> "entry")

PipelineInit ==
    /\ pc = "poll"
    /\ msg = [value |-> JNull, offset |-> 0, partition |-> 0]
    /\ attempt = 0
    /\ embeddings = <<>>
    /\ store = EmptyBag
    /\ cache = CacheAtStart
    /\ dlqTopic = <<>>
    /\ nextOffset = [p \in Partitions |-> 0]
    /\ eff = NoEffect
    /\ outcome = "none"
    /\ error = ""
    /\ dlqCall = <<>>
    /\ redelivered = FALSE
    /\ current = NoCurrent
    /\ failed = {}
    /\ config \in {[dlq_enabled |-> TRUE, dlq_producer |-> TRUE],
                   [dlq_enabled |-> FALSE, dlq_producer |-> FALSE]}

RECURSIVE SumOver(_, _)
SumOver(f, S) ==
    IF S = {} THEN 0
    ELSE LET x == CHOOSE y \in S : TRUE IN f[x] + SumOver(f, S \ {x})

\* the number of messages delivered so far
Delivered == SumOver(nextOffset, Partitions)

ReadyForNext_whileHandling(p) == TRUE

\* lines 82-118: the loop body awaits process_event and send_failed_event, so
\* the iterator is asked for the next message only when the body has ended
ReadyForNext(p) == p = "poll"

\* `async for message in consumer`: the next message of some partition
Consume ==
    /\ ReadyForNext(pc)
    /\ Delivered < MaxMessages
    /\ \E p \in Partitions, v \in MessageValues :
          /\ msg' = [value |-> v, offset |-> nextOffset[p], partition |-> p]
          /\ nextOffset' = [nextOffset EXCEPT ![p] = @ + 1]
          /\ redelivered' = (outcome = "returned" /\ eff.writes > 0
                              /\ v = msg.value)
    /\ pc' = "handle"
    /\ eff' = NoEffect
    /\ outcome' = "none"
    /\ error' = ""
    /\ dlqCall' = <<>>
    /\ attempt' = 0
    /\ embeddings' = <<>>
    /\ UNCHANGED <<store, cache, dlqTopic, current, failed, config>>
    /\ UNCHANGED <<retryVars, parseVars, queryServiceVars, standaloneVars>>

\* lines 85-100 and process_event up to its first await
HandleMessage ==
    /\ pc = "handle"
    /\ LET event_data == EventData(msg.value) IN
       IF msg.value.t = "null" \/ ~IsDict(event_data)
       THEN /\ pc' = "poll"
            /\ outcome' = "skipped"
            /\ UNCHANGED <<error, current, failed>>
       ELSE CASE Dispatch(event_data.d) = "return" ->
                    /\ pc' = "poll"
                    /\ outcome' = "returned"
                    /\ current' = Processed(current, msg)
                    /\ UNCHANGED <<error, failed>>
              [] Dispatch(event_data.d) = "raise" ->
                    /\ Raise("badly formed hexadecimal UUID string")
                    /\ UNCHANGED current
              [] Dispatch(event_data.d) = "delete" ->
                    /\ pc' = "delete"
                    /\ UNCHANGED <<outcome, error, current, failed>>
              [] Dispatch(event_data.d) = "upsert" ->
                    /\ pc' = "embed"
                    /\ UNCHANGED <<outcome, error, current, failed>>
    /\ UNCHANGED <<msg, attempt, embeddings, store, cache, dlqTopic,
                   nextOffset, eff, dlqCall, redelivered, config>>
    /\ UNCHANGED <<retryVars, parseVars, queryServiceVars, standaloneVars>>

\* _handle_delete, lines 125-130: await delete_document_chunks(str(document_id))
HandleDelete ==
    /\ pc = "delete"
    /\ LET document_id == GetDocumentId(EventOf(msg)[1]).id IN
       \E r \in {"ok", "UnexpectedResponse"} :
          IF r = "ok"
          THEN /\ store' = ClientDelete(store, document_id)
               /\ eff' = [eff EXCEPT !.deletes = @ + 1]
               /\ current' = [current EXCEPT ![document_id] = <<>>]
               /\ pc' = "poll"
               /\ outcome' = "returned"
               /\ UNCHANGED <<error, failed>>
          ELSE /\ Raise(r)
               /\ UNCHANGED <<store, eff, current>>
    /\ UNCHANGED <<msg, attempt, embeddings, cache, dlqTopic, nextOffset,
                   dlqCall, redelivered, config>>
    /\ UNCHANGED <<retryVars, parseVars, queryServiceVars, standaloneVars>>

\* lines 166-172: one attempt of generate_embeddings under retry_with_backoff
\* with exceptions=(Exception,). The provider answers with one vector per
\* text, with a vector too few, or with an error.
EmbedAttempt ==
    /\ pc = "embed"
    /\ eff' = [eff EXCEPT !.embedCalls = @ + 1]
    /\ \E r \in {"ok", "short", "EmbeddingError"} :
          CASE r = "ok" ->
                 /\ embeddings' = GenerateEmbeddings(JobTexts)
                 /\ pc' = "upsert"
                 /\ attempt' = 0
                 /\ UNCHANGED <<outcome, error, failed>>
            [] r = "short" ->
                 /\ embeddings' = SubSeq(GenerateEmbeddings(JobTexts), 1,
                                         Len(JobTexts) - 1)
                 /\ pc' = "upsert"
                 /\ attempt' = 0
                 /\ UNCHANGED <<outcome, error, failed>>
            [] OTHER ->
                 CASE OnError(attempt, RetryLimit, r, {"Exception"}) = "sleep" ->
                        /\ pc' = "sleep_embed"
                        /\ UNCHANGED <<attempt, embeddings, outcome, error,
                                       failed>>
                   [] OTHER ->
                        /\ Raise(r)
                        /\ UNCHANGED <<attempt, embeddings>>
    /\ UNCHANGED <<msg, store, cache, dlqTopic, nextOffset, dlqCall,
                   redelivered, current, config>>
    /\ UNCHANGED <<retryVars, parseVars, queryServiceVars, standaloneVars>>

\* line 57: await asyncio.sleep(wait_time), then the next round of the loop
BackoffSleep ==
    /\ pc \in {"sleep_embed", "sleep_upsert"}
    /\ pc' = IF pc = "sleep_embed" THEN "embed" ELSE "upsert"
    /\ attempt' = attempt + 1
    /\ UNCHANGED <<msg, embeddings, store, cache, dlqTopic, nextOffset, eff,
                   outcome, error, dlqCall, redelivered, current, failed,
                   config>>
    /\ UNCHANGED <<retryVars, parseVars, queryServiceVars, standaloneVars>>

\* VectorDBService.upsert_chunks as called at lines 174-182: the error it
\* raises ("" for none) and the collection it leaves
UpsertChunks(coll, chunks, embs, document_id, version, backend) ==
    IF Len(chunks) # Len(embs)
    THEN [error |-> "VectorDBError", coll |-> coll]
    ELSE IF backend = "ok"
         THEN [error |-> "",
               coll |-> ClientUpsert(coll, BuildPoints(chunks, embs,
                                                       document_id, version))]
         ELSE [error |-> backend, coll |-> coll]

\* lines 174-212: one attempt of upsert_chunks under retry_with_backoff with
\* exceptions=(VectorDBError,); after the upsert the metrics and
\* cache_service.delete(f"query:{document_id}")
UpsertAttempt ==
    /\ pc = "upsert"
    /\ \E backend \in {"ok", "UnexpectedResponse"} :
          LET r == UpsertChunks(store, JobChunks, embeddings, JobDocId,
                                JobVersion, backend)
          IN  /\ store' = r.coll
              /\ IF r.error = ""
                 THEN /\ eff' = [eff EXCEPT !.upsertCalls = @ + 1,
                                            !.writes = @ + 1,
                                            !.cacheDeletes = @ + 1]
                      /\ cache' = InvalidateCache(cache, JobDocId)
                      /\ current' = Processed(current, msg)
                      /\ pc' = "poll"
                      /\ outcome' = "returned"
                      /\ UNCHANGED <<error, failed>>
                 ELSE /\ eff' = [eff EXCEPT !.upsertCalls = @ + 1]
                      /\ UNCHANGED <<cache, current>>
                      /\ CASE OnError(attempt, RetryLimit, r.error,
                                      {"VectorDBError"}) = "sleep" ->
                                /\ pc' = "sleep_upsert"
                                /\ UNCHANGED <<outcome, error, failed>>
                           [] OTHER -> Raise(r.error)
    /\ UNCHANGED <<msg, attempt, embeddings, dlqTopic, nextOffset, dlqCall,
                   redelivered, config>>
    /\ UNCHANGED <<retryVars, parseVars, queryServiceVars, standaloneVars>>

SendFailedEvent_disabledRaises(topic, cfg, args, sent) ==
    IF ~cfg.dlq_enabled \/ ~cfg.dlq_producer
    THEN [topic |-> topic, raised |-> "DLQError"]
    ELSE [topic |-> topic, raised |-> ""]

\* DLQService.send_failed_event: the topic it leaves and the error it raises
\* ("" for none); sent is whether producer.send_and_wait succeeds
SendFailedEvent(topic, cfg, args, sent) ==
    IF ~cfg.dlq_enabled \/ ~cfg.dlq_producer
    THEN [topic |-> topic, raised |-> ""]
    ELSE IF sent
         THEN [topic |-> Append(topic,
                            [original_event |-> args.event_data,
                             error |-> args.error,
                             original_topic |-> args.original_topic,
                             offset |-> args.offset,
                             partition |-> args.partition]),
               raised |-> ""]
         ELSE [topic |-> topic, raised |-> "DLQError"]

\* the arguments of the send_failed_event call for msg
DLQArgs ==
    [event_data |-> IF IsDict(EventData(msg.value))
                    THEN EventData(msg.value).d ELSE EmptyDict,
     error |-> error,
     original_topic |-> kafka_topic_documents,
     offset |-> msg.offset,
     partition |-> msg.partition]

RouteToDLQ_failureEndsLoop ==
    /\ pc = "dlq"
    /\ \E sent \in BOOLEAN :
          LET r == SendFailedEvent(dlqTopic, config, DLQArgs, sent) IN
          /\ dlqTopic' = r.topic
          /\ dlqCall' = Append(dlqCall, [args |-> DLQArgs, raised |-> r.raised])
          /\ pc' = IF r.raised = "" THEN "poll" ELSE "stopped"
    /\ UNCHANGED <<msg, attempt, embeddings, store, cache, nextOffset, eff,
                   outcome, error, redelivered, current, failed, config>>
    /\ UNCHANGED <<retryVars, parseVars, queryServiceVars, standaloneVars>>

\* lines 101-118: the except branch of the consumer loop; a DLQError of
\* send_failed_event is logged and the loop goes on
RouteToDLQ ==
    /\ pc = "dlq"
    /\ \E sent \in BOOLEAN :
          LET r == SendFailedEvent(dlqTopic, config, DLQArgs, sent) IN
          /\ dlqTopic' = r.topic
          /\ dlqCall' = Append(dlqCall, [args |-> DLQArgs, raised |-> r.raised])
    /\ pc' = "poll"
    /\ UNCHANGED <<msg, attempt, embeddings, store, cache, nextOffset, eff,
                   outcome, error, redelivered, current, failed, config>>
    /\ UNCHANGED <<retryVars, parseVars, queryServiceVars, standaloneVars>>

PipelineNext ==
    \/ Consume
    \/ HandleMessage
    \/ HandleDelete
    \/ EmbedAttempt
    \/ BackoffSleep
    \/ UpsertAttempt
    \/ RouteToDLQ

----------------------------------------------------------------------------
(* retry_with_backoff run on its own: the operation fails or succeeds at    *)
(* will; rt records the arguments, the calls made and the waits taken       *)

ErrorKinds == {"EmbeddingError", "VectorDBError"}

RetryArgs ==
    [max_retries : {NotPassed} \cup 0..MaxRetriesArg,
     delay : {NotPassed, 0, 1, 2},
     backoff_multiplier : {NotPassed, 0, 2},
     exceptions : {{"Exception"}, {"VectorDBError"}}]

RetryInit ==
    \E a \in RetryArgs :
       rt = [args |-> a, status |-> "running", attempt |-> 0,
             calls |-> <<>>, waits |-> <<>>, value |-> <<>>]

RetryMax == OrDefault(rt.args.max_retries, settings_max_retries)
RetryDelay == OrDefault(rt.args.delay, settings_retry_delay_seconds)
RetryMultiplier ==
    OrDefault(rt.args.backoff_multiplier, settings_retry_backoff_multiplier)

\* lines 43-56: one round of the loop, up to the sleep or the way out
RetryCall ==
    /\ rt.status = "running"
    /\ \E r \in {"ok"} \cup ErrorKinds :
          LET n == Len(rt.calls) + 1
              called == [rt EXCEPT !.calls = Append(@, r)]
          IN  IF r = "ok"
              THEN rt' = [called EXCEPT !.status = "returned",
                                        !.value = <<"result", n>>]
              ELSE CASE OnError(rt.attempt, RetryMax, r, rt.args.exceptions)
                          = "sleep" ->
                          rt' = [called EXCEPT
                                   !.status = "sleeping",
                                   !.waits = Append(@, WaitTime(RetryDelay,
                                                RetryMultiplier, rt.attempt))]
                     [] OTHER ->
                          rt' = [called EXCEPT !.status = "raised",
                                               !.value = <<r, n>>]
    /\ UNCHANGED <<pipelineVars, parseVars, queryServiceVars, standaloneVars>>

\* line 57: the sleep ends and the loop takes the next attempt
RetrySleep ==
    /\ rt.status = "sleeping"
    /\ rt' = [rt EXCEPT !.status = "running", !.attempt = @ + 1]
    /\ UNCHANGED <<pipelineVars, parseVars, queryServiceVars, standaloneVars>>

RetryNext == RetryCall \/ RetrySleep

----------------------------------------------------------------------------
(* _parse_event run on its own over RawEvents *)

ParseInit ==
    /\ raw \in RawEvents
    /\ parsed = [done |-> FALSE, result |-> <<>>]

ParseStep ==
    /\ ~parsed.done
    /\ parsed' = [done |-> TRUE, result |-> ParseEvent(raw)]
    /\ UNCHANGED <<raw, pipelineVars, retryVars, queryServiceVars, standaloneVars>>

----------------------------------------------------------------------------
(* CacheService                                                             *)
(* A str held in Redis is a record [kind, v]: Text(s) is the text s,        *)
(* JsonDumps(value) the text json.dumps(value) gives. A result of type      *)
(* Optional[...] is <<>> for None and <<x>> for x.                          *)

Text(s) == [kind |-> "text", v |-> s]
JsonDumps(value) == [kind |-> "json", v |-> value]

\* json.loads(s): the value parsed, or the JSONDecodeError raised
JsonLoads(s) ==
    IF s.kind = "json" THEN [raised |-> "", value |-> <<s.v>>]
    ELSE [raised |-> "JSONDecodeError", value |-> <<>>]

\* truth value of a str
StrTruthy(s) == ~(s.kind = "text" /\ s.v = "")

CacheGet_failClosed(client, data, key, backend) ==
    IF ~client THEN [raised |-> "", value |-> <<>>]
    ELSE IF backend = "error" THEN [raised |-> "CacheError", value |-> <<>>]
    ELSE IF key \in DOMAIN data THEN [raised |-> "", value |-> <<data[key]>>]
    ELSE [raised |-> "", value |-> <<>>]

\* CacheService.get: backend is whether client.get answers or raises
CacheGet(client, data, key, backend) ==
    IF ~client THEN [raised |-> "", value |-> <<>>]
    ELSE IF backend = "error" THEN [raised |-> "", value |-> <<>>]
    ELSE IF key \in DOMAIN data THEN [raised |-> "", value |-> <<data[key]>>]
    ELSE [raised |-> "", value |-> <<>>]

\* CacheService.get_json
CacheGetJson(client, data, key, backend) ==
    LET got == CacheGet(client, data, key, backend) IN
    IF got.raised # "" THEN got
    ELSE IF Len(got.value) > 0 /\ StrTruthy(got.value[1])
         THEN LET loaded == JsonLoads(got.value[1]) IN
              IF loaded.raised = "JSONDecodeError"
              THEN [raised |-> "", value |-> <<>>]
              ELSE loaded
         ELSE [raised |-> "", value |-> <<>>]

\* CacheService.set: the error raised and the keyspace left
CacheSet(client, data, key, value, backend) ==
    IF ~client THEN [raised |-> "", data |-> data]
    ELSE IF backend = "error" THEN [raised |-> "CacheError", data |-> data]
    ELSE [raised |-> "",
          data |-> [k \in DOMAIN data \cup {key} |->
                       IF k = key THEN value ELSE data[k]]]

\* CacheService.set_json
CacheSetJson(client, data, key, value, backend) ==
    CacheSet(client, data, key, JsonDumps(value), backend)

\* CacheService.delete
CacheDelete(client, data, key, backend) ==
    IF ~client THEN [raised |-> "", data |-> data]
    ELSE IF backend = "error" THEN [raised |-> "", data |-> data]
    ELSE [raised |-> "", data |-> [k \in DOMAIN data \ {key} |-> data[k]]]

(* CacheService run on its own over a small keyspace *)

CacheKeys == {"k1", "k2"}
\* dicts a caller stores with set_json
CacheDicts == {[answer |-> "a1"], [answer |-> "a2"]}
\* strings found in Redis: the empty string, text that is no JSON, JSON text
StoredStrings == <<Text(""), Text("not json"), JsonDumps([answer |-> "a1"]),
                   JsonDumps([answer |-> "a2"])>>
Backends == {"ok", "error"}
EmptyKeyspace == [k \in {} |-> Text("")]

NoCacheCall == [op |-> "none", key |-> "", backend |-> "ok", raised |-> "",
                value |-> <<>>]

CacheInit ==
    /\ cache_client \in BOOLEAN
    /\ \E K \in SUBSET CacheKeys :
          \E f \in [K -> DOMAIN StoredStrings] :
             redis = [k \in K |-> StoredStrings[f[k]]]
    /\ cres = NoCacheCall

CacheGetCall ==
    /\ \E key \in CacheKeys, backend \in Backends :
          LET r == CacheGet(cache_client, redis, key, backend) IN
          cres' = [op |-> "get", key |-> key, backend |-> backend,
                   raised |-> r.raised, value |-> r.value]
    /\ UNCHANGED <<redis, cache_client>>
    /\ UNCHANGED standaloneVars
    /\ UNCHANGED <<updateServiceVars, queryVars, contextVars, filterVars,
                   pageVars>>

CacheGetJsonCall ==
    /\ \E key \in CacheKeys, backend \in Backends :
          LET r == CacheGetJson(cache_client, redis, key, backend) IN
          cres' = [op |-> "get_json", key |-> key, backend |-> backend,
                   raised |-> r.raised, value |-> r.value]
    /\ UNCHANGED <<redis, cache_client>>
    /\ UNCHANGED standaloneVars
    /\ UNCHANGED <<updateServiceVars, queryVars, contextVars, filterVars,
                   pageVars>>

CacheSetCall ==
    /\ \E key \in CacheKeys, i \in DOMAIN StoredStrings, backend \in Backends :
          LET value == StoredStrings[i]
              r == CacheSet(cache_client, redis, key, value, backend) IN
          /\ redis' = r.data
          /\ cres' = [op |-> "set", key |-> key, backend |-> backend,
                      raised |-> r.raised, value |-> <<value>>]
    /\ UNCHANGED cache_client
    /\ UNCHANGED standaloneVars
    /\ UNCHANGED <<updateServiceVars, queryVars, contextVars, filterVars,
                   pageVars>>

CacheSetJsonCall ==
    /\ \E key \in CacheKeys, value \in CacheDicts, backend \in Backends :
          LET r == CacheSetJson(cache_client, redis, key, value, backend) IN
          /\ redis' = r.data
          /\ cres' = [op |-> "set_json", key |-> key, backend |-> backend,
                      raised |-> r.raised, value |-> <<value>>]
    /\ UNCHANGED cache_client
    /\ UNCHANGED standaloneVars
    /\ UNCHANGED <<updateServiceVars, queryVars, contextVars, filterVars,
                   pageVars>>

CacheDeleteCall ==
    /\ \E key \in CacheKeys, backend \in Backends :
          LET r == CacheDelete(cache_client, redis, key, backend) IN
          /\ redis' = r.data
          /\ cres' = [op |-> "delete", key |-> key, backend |-> backend,
                      raised |-> r.raised, value |-> <<>>]
    /\ UNCHANGED cache_client
    /\ UNCHANGED standaloneVars
    /\ UNCHANGED <<updateServiceVars, queryVars, contextVars, filterVars,
                   pageVars>>

CacheNext ==
    \/ CacheGetCall
    \/ CacheGetJsonCall
    \/ CacheSetCall
    \/ CacheSetJsonCall
    \/ CacheDeleteCall

----------------------------------------------------------------------------
(* QueryProcessor: context assembly, source filter, pagination              *)
(* The text of a chunk is a record [name, start, len]: the len characters   *)
(* of the text called name that begin at offset start. Scores and           *)
(* confidences are counted in hundredths: 15 stands for 0.15.               *)

MAX_CONTEXT_TOKENS == 8000
MAX_CONTEXT_CHARS == MAX_CONTEXT_TOKENS * 4
\* 0.15
MIN_SIMILARITY_SCORE == 15
\* the 0.3 of `confidence < 0.3`
LOW_CONFIDENCE == 30

Str(name, n) == [name |-> name, start |-> 0, len |-> n]
EmptyStr == Str("", 0)

\* s[:n] for n >= 0
SliceTo(s, n) == [s EXCEPT !.len = IF n < s.len THEN n ELSE s.len]

\* a match as VectorDBService.search builds it
Match(id, content, document_id, score, version) ==
    [id |-> id, content |-> content, document_id |-> document_id,
     score |-> score, version |-> version]

SeparatorLength_none(context_parts) == 0

\* separator_length = 2 if context_parts else 0
SeparatorLength(context_parts) == IF Len(context_parts) > 0 THEN 2 ELSE 0

\* the loop of _build_context from matches[i] on
RECURSIVE BuildContextFrom(_, _, _, _, _)
BuildContextFrom(matches, i, context_parts, total_chars, used_matches) ==
    IF i > Len(matches)
    THEN [context_parts |-> context_parts, used_matches |-> used_matches]
    ELSE LET match == matches[i]
             content == Get(match, "content", EmptyStr)
             content_length == content.len
             separator_length == SeparatorLength(context_parts)
         IN  IF total_chars + content_length + separator_length
                   <= MAX_CONTEXT_CHARS
             THEN BuildContextFrom(matches, i + 1,
                     Append(context_parts, content),
                     total_chars + content_length + separator_length,
                     Append(used_matches, match))
             ELSE LET remaining_space ==
                          MAX_CONTEXT_CHARS - total_chars - separator_length
                  IN  IF remaining_space > 100
                      THEN [context_parts |->
                               Append(context_parts,
                                      SliceTo(content, remaining_space)),
                            used_matches |-> Append(used_matches, match)]
                      ELSE [context_parts |-> context_parts,
                            used_matches |-> used_matches]

\* len("\n\n".join(parts))
RECURSIVE JoinLen(_)
JoinLen(parts) ==
    IF Len(parts) = 0 THEN 0
    ELSE IF Len(parts) = 1 THEN parts[1].len
    ELSE parts[1].len + 2 + JoinLen(Tail(parts))

\* _build_context: the context, as the parts that "\n\n" joins, and the
\* matches used
BuildContext(matches) ==
    LET built == BuildContextFrom(matches, 1, <<>>, 0, <<>>) IN
    [context |-> built.context_parts, used_matches |-> built.used_matches]

\* a source as process_query builds it at lines 194-202
Source(document_id, score, version, cited) ==
    [document_id |-> document_id, score |-> score, version |-> version,
     cited |-> cited]

KeepCitedAndSimilar(s) == s.cited /\ s.score >= MIN_SIMILARITY_SCORE
KeepSimilar(s) == s.score >= MIN_SIMILARITY_SCORE

FilterSources_lowConfidenceKeepsUncited(sources, confidence, is_complete) ==
    IF confidence = 0 THEN <<>>
    ELSE SelectSeq(sources, KeepSimilar)

\* _filter_sources
FilterSources(sources, confidence, is_complete) ==
    IF confidence = 0 THEN <<>>
    ELSE IF confidence < LOW_CONFIDENCE \/ ~is_complete
         THEN SelectSeq(sources, KeepCitedAndSimilar)
         ELSE SelectSeq(sources, KeepSimilar)

\* seq[a:b] for 0 <= a and 0 <= b
Slice(seq, a, b) ==
    LET lo == IF a < Len(seq) THEN a ELSE Len(seq)
        hi == IF b < Len(seq) THEN b ELSE Len(seq)
    IN  SubSeq(seq, lo + 1, hi)

PaginateSources_hasNextAlways(sources, page, page_size) ==
    LET total_sources == Len(sources)
        end_idx == (page - 1) * page_size + page_size
    IN  [sources |-> Slice(sources, (page - 1) * page_size, end_idx),
         pagination |->
            IF total_sources > page_size
            THEN <<[page |-> page, page_size |-> page_size,
                    total |-> total_sources,
                    total_pages |->
                       (total_sources + page_size - 1) \div page_size,
                    has_next |-> TRUE,
                    has_prev |-> page > 1]>>
            ELSE <<>>]

\* _paginate_sources: the page and the Optional pagination dict
PaginateSources(sources, page, page_size) ==
    LET total_sources == Len(sources)
        start_idx == (page - 1) * page_size
        end_idx == start_idx + page_size
        paginated_sources == Slice(sources, start_idx, end_idx)
    IN  [sources |-> paginated_sources,
         pagination |->
            IF total_sources > page_size
            THEN <<[page |-> page, page_size |-> page_size,
                    total |-> total_sources,
                    total_pages |->
                       (total_sources + page_size - 1) \div page_size,
                    has_next |-> end_idx < total_sources,
                    has_prev |-> page > 1]>>
            ELSE <<>>]

----------------------------------------------------------------------------
(* _build_context, _filter_sources and _paginate_sources run on their own   *)

\* chunk lengths around the budget: with a first chunk of 31897 characters
\* 101 are left for the second, with 31898 only 100
\* sorted(matches, key=score, reverse=True): a stable insertion sort
RECURSIVE InsertByScore(_, _)
InsertByScore(sorted, m) ==
    IF Len(sorted) = 0 THEN <<m>>
    ELSE IF Head(sorted).score >= m.score
         THEN <<Head(sorted)>> \o InsertByScore(Tail(sorted), m)
         ELSE <<m>> \o sorted

SortedByScore_asGiven(matches) == matches

RECURSIVE SortedByScore(_)
SortedByScore(matches) ==
    IF Len(matches) = 0 THEN <<>>
    ELSE InsertByScore(SortedByScore(SubSeq(matches, 1, Len(matches) - 1)),
                       matches[Len(matches)])

ContentLengths == {0, 100, 16000, 31897, 31898, 32000, 32001}
MatchScores == {40, 90}

\* the matches of a search, in any order of their scores
ContextInit ==
    \E n \in 0..MaxMatches :
       \E lens \in [1..n -> ContentLengths], scores \in [1..n -> MatchScores] :
          bc = [matches |-> [i \in 1..n |->
                               Match(i, Str(ToString(i), lens[i]),
                                     ToString(i), scores[i], 1)],
                done |-> FALSE, context |-> <<>>, used_matches |-> <<>>]

\* matches = sorted(matches, ...); context, used_matches =
\* self._build_context(matches)
BuildContextStep ==
    /\ ~bc.done
    /\ LET r == BuildContext(SortedByScore(bc.matches)) IN
       bc' = [bc EXCEPT !.done = TRUE, !.context = r.context,
                        !.used_matches = r.used_matches]
    /\ UNCHANGED standaloneVars
    /\ UNCHANGED <<updateServiceVars, cacheVars, queryVars, filterVars,
                   pageVars>>

Scores == {14, 15, 90}
Confidences == {0, 1, 29, 30, 100}

FilterInit ==
    \E n \in 0..MaxFilterSources :
       \E scores \in [1..n -> Scores], cited \in [1..n -> BOOLEAN],
          confidence \in Confidences, is_complete \in BOOLEAN :
          fs = [sources |-> [i \in 1..n |->
                               Source(ToString(i), scores[i], 1, cited[i])],
                confidence |-> confidence, is_complete |-> is_complete,
                done |-> FALSE, result |-> <<>>]

FilterSourcesStep ==
    /\ ~fs.done
    /\ fs' = [fs EXCEPT !.done = TRUE,
                        !.result = FilterSources(fs.sources, fs.confidence,
                                                 fs.is_complete)]
    /\ UNCHANGED standaloneVars
    /\ UNCHANGED <<updateServiceVars, cacheVars, queryVars, contextVars,
                   pageVars>>

PageInit ==
    \E n \in 0..MaxPageSources, page \in 1..MaxPage,
       page_size \in 1..MaxPageSize :
       pg = [sources |-> [i \in 1..n |-> Source(ToString(i), 100 - i, 1, TRUE)],
             page |-> page, page_size |-> page_size,
             done |-> FALSE, result |-> <<>>, pagination |-> <<>>]

PaginateSourcesStep ==
    /\ ~pg.done
    /\ LET r == PaginateSources(pg.sources, pg.page, pg.page_size) IN
       pg' = [pg EXCEPT !.done = TRUE, !.result = r.sources,
                        !.pagination = r.pagination]
    /\ UNCHANGED standaloneVars
    /\ UNCHANGED <<updateServiceVars, cacheVars, queryVars, contextVars,
                   filterVars>>

----------------------------------------------------------------------------
(* QueryProcessor.process_query                                             *)

\* truth value of a dict
DictTruthy(d) == DOMAIN d # {}

\* the points of the collection that vector search ranks, best first
Point1 == Match("p1", Str("c1", 40), "d1", 90, 1)
Point2 == Match("p2", Str("c2", 60), "d2", 40, 2)
Point3 == Match("p3", Str("c3", 50), "d3", 10, 1)
RankedPoints == {<<>>, <<Point1>>, <<Point1, Point2, Point3>>}

\* StructuredAnswer values the LLM gives
Answers ==
    {[answer |-> "ans", confidence |-> 0, is_complete |-> FALSE, citations |-> {}],
     [answer |-> "ans", confidence |-> 20, is_complete |-> TRUE, citations |-> {"d1"}],
     [answer |-> "ans", confidence |-> 80, is_complete |-> FALSE, citations |-> {"d2"}],
     [answer |-> "ans", confidence |-> 80, is_complete |-> TRUE, citations |-> {}]}

\* the requests made: query, top_k, page, page_size
Requests ==
    [query : {"q1", "q2"}, top_k : {3}, page : {1}, page_size : {10}] \cup
    [query : {"q1", "q2"}, top_k : {3}, page : {2}, page_size : {1}] \cup
    [query : {"q1", "q2"}, top_k : {1}, page : {1}, page_size : {10}]

\* VectorDBService.search: the top_k nearest points, best first
Search(ranked, top_k) == Slice(ranked, 0, top_k)

NotFoundResponse ==
    [answer |-> "I couldn't find relevant information to answer your question.",
     sources |-> <<>>, confidence |-> 0, is_complete |-> FALSE]

NoCalls == [embed |-> 0, search |-> 0, llm |-> 0, cacheWrites |-> 0]

\* lines 183-219: the response built from the matches and the LLM's answer
BuildResponse(r, matches, structured_response) ==
    LET built == BuildContext(SortedByScore(matches))
        used_matches == built.used_matches
        sources == [i \in 1..Len(used_matches) |->
                      Source(used_matches[i].document_id,
                             used_matches[i].score,
                             used_matches[i].version,
                             used_matches[i].document_id
                                \in structured_response.citations)]
        filtered == FilterSources(sources, structured_response.confidence,
                                  structured_response.is_complete)
        paged == PaginateSources(filtered, r.page, r.page_size)
    IN  [answer |-> structured_response.answer,
         sources |-> paged.sources,
         confidence |-> structured_response.confidence,
         is_complete |-> structured_response.is_complete,
         pagination |-> paged.pagination]

HitResult_embedsAnyway(cached_response, data) ==
    [kind |-> "hit", response |-> <<cached_response>>, error |-> "",
     eff |-> [NoCalls EXCEPT !.embed = 1], data |-> data]

\* lines 166-168: the cached response is returned
HitResult(cached_response, data) ==
    [kind |-> "hit", response |-> <<cached_response>>, error |-> "",
     eff |-> NoCalls, data |-> data]

NotFoundResult_cached(client, data, cache_key, writeBackend) ==
    [kind |-> "not_found", response |-> <<NotFoundResponse>>, error |-> "",
     eff |-> [NoCalls EXCEPT !.embed = 1, !.search = 1, !.cacheWrites = 1],
     data |-> CacheSetJson(client, data, cache_key, NotFoundResponse,
                           "ok").data]

\* lines 173-179: no match, the fixed response is returned at once
NotFoundResult(client, data, cache_key, writeBackend) ==
    [kind |-> "not_found", response |-> <<NotFoundResponse>>, error |-> "",
     eff |-> [NoCalls EXCEPT !.embed = 1, !.search = 1], data |-> data]

ServiceFailure_cached(e, calls, client, data, cache_key) ==
    [kind |-> "raised", response |-> <<>>, error |-> e,
     eff |-> [calls EXCEPT !.cacheWrites = 1],
     data |-> CacheSetJson(client, data, cache_key, [error |-> e], "ok").data]

\* lines 170-190: the exception of generate_embedding, search or
\* generate_response leaves process_query, set_json is not reached
ServiceFailure(e, calls, client, data, cache_key) ==
    [kind |-> "raised", response |-> <<>>, error |-> e, eff |-> calls,
     data |-> data]

CacheKeyOf_withPaging(r) ==
    <<"query_response", "v2", Md5(r.query), r.top_k, r.page, r.page_size>>

\* cache_key = self._get_cache_key(query)
CacheKeyOf(r) == GetCacheKey(r.query)

\* process_query(r.query, r.top_k, r.page, r.page_size) in world w over the
\* cache (client, data): how it ends, the calls it makes, the keyspace it
\* leaves. readBackend and writeBackend are whether Redis answers the read
\* and the write; fault is the service that fails, if one does
ProcessQuery(r, w, client, data, readBackend, fault, writeBackend) ==
    LET cache_key == CacheKeyOf(r)
        cached == CacheGetJson(client, data, cache_key, readBackend)
        matches == Search(w.ranked, r.top_k)
        response == BuildResponse(r, matches, w.answer)
        written == CacheSetJson(client, data, cache_key, response, writeBackend)
        Raised(e, calls) == [kind |-> "raised", response |-> <<>>,
                             error |-> e, eff |-> calls, data |-> data]
    IN  IF cached.raised # "" THEN Raised(cached.raised, NoCalls)
        ELSE IF Len(cached.value) > 0 /\ DictTruthy(cached.value[1])
        THEN HitResult(cached.value[1], data)
        ELSE IF fault = "embedding"
        THEN ServiceFailure("EmbeddingError", [NoCalls EXCEPT !.embed = 1],
                            client, data, cache_key)
        ELSE IF fault = "search"
        THEN ServiceFailure("VectorDBError",
                            [NoCalls EXCEPT !.embed = 1, !.search = 1],
                            client, data, cache_key)
        ELSE IF Len(matches) = 0
        THEN NotFoundResult(client, data, cache_key, writeBackend)
        ELSE IF fault = "llm"
        THEN ServiceFailure("LLMError",
                            [NoCalls EXCEPT !.embed = 1, !.search = 1, !.llm = 1],
                            client, data, cache_key)
        ELSE IF written.raised # ""
        THEN [kind |-> "raised", response |-> <<>>, error |-> written.raised,
              eff |-> [embed |-> 1, search |-> 1, llm |-> 1, cacheWrites |-> 1],
              data |-> written.data]
        ELSE [kind |-> "computed", response |-> <<response>>, error |-> "",
              eff |-> [embed |-> 1, search |-> 1, llm |-> 1, cacheWrites |-> 1],
              data |-> written.data]

Faults == {"none", "embedding", "search", "llm"}

NoRequest == [query |-> "", top_k |-> 0, page |-> 0, page_size |-> 0]
NoResult == [kind |-> "none", response |-> <<>>, error |-> ""]

QueryInit ==
    /\ world \in [ranked : RankedPoints, answer : Answers]
    /\ cache_client \in BOOLEAN
    /\ redis = EmptyKeyspace
    /\ cres = NoCacheCall
    /\ req = NoRequest
    /\ qres = NoResult
    /\ qeff = NoCalls
    /\ qhist = <<>>

\* one POST /query: a whole process_query call
ProcessQueryCall ==
    /\ \E r \in Requests, readBackend \in Backends, fault \in Faults,
          writeBackend \in Backends :
          \* the write is reached only when no service fails
          /\ fault # "none" => writeBackend = "ok"
          /\ \E out \in {ProcessQuery(r, world, cache_client, redis,
                                    readBackend, fault, writeBackend)} :
                /\ req' = r
                /\ qres' = [kind |-> out.kind, response |-> out.response,
                            error |-> out.error]
                /\ qeff' = out.eff
                /\ redis' = out.data
                /\ qhist' = IF qres.kind = "none" THEN <<>>
                            ELSE <<[identical |-> req = r,
                                    kind |-> qres.kind]>>
    /\ UNCHANGED <<world, cache_client, cres>>
    /\ UNCHANGED standaloneVars
    /\ UNCHANGED <<updateServiceVars, contextVars, filterVars, pageVars>>

\* Redis drops an entry when the ttl given to setex has run out
Expire ==
    /\ \E k \in DOMAIN redis :
          redis' = [j \in DOMAIN redis \ {k} |-> redis[j]]
    /\ UNCHANGED <<cache_client, cres, queryVars>>
    /\ UNCHANGED standaloneVars
    /\ UNCHANGED <<updateServiceVars, contextVars, filterVars, pageVars>>

QueryNext == ProcessQueryCall \/ Expire

----------------------------------------------------------------------------
(* DatabaseService: the documents table *)

MaxDocs == 2
MaxVersion == 3

NoRow == <<>>
Row(title, content, version) ==
    [title |-> title, content |-> content, version |-> version]

\* what a call gives: the table after it, the exception it raises ("" if
\* none) with its message, the row it returns (None is NoRow) and, for a
\* delete, its boolean result
DbOutcome(d, raised, detail, row, deleted) ==
    [db |-> d, raised |-> raised, detail |-> detail, row |-> row,
     deleted |-> deleted]
DbRaise(d, detail) == DbOutcome(d, "DatabaseError", detail, NoRow, FALSE)

\* INSERT INTO documents (title, content, version) VALUES ($1, $2, 1):
\* the id is the column default, a value no row has had before
CreateDocument(d, title, content, backend) ==
    IF ~d.pool THEN DbRaise(d, "Database not connected")
    ELSE IF backend = "error" THEN DbRaise(d, "Failed to create document")
    ELSE LET id == d.ids_issued + 1
             row == Row(title, content, 1)
         IN  DbOutcome([d EXCEPT !.rows = (id :> row) @@ d.rows,
                                 !.ids_issued = id],
                       "", "", <<row>>, FALSE)

\* UPDATE documents SET {updates}, version = version + 1 WHERE id = $n
\* RETURNING ...: title and content are set only when truthy
RunUpdate(d, document_id, title, content, backend) ==
    IF backend = "error" THEN DbRaise(d, "Failed to update document")
    ELSE IF document_id \notin DOMAIN d.rows
    THEN DbOutcome(d, "", "", NoRow, FALSE)
    ELSE LET old == d.rows[document_id]
             row == Row(IF Truthy(title) THEN title ELSE old.title,
                        IF Truthy(content) THEN content ELSE old.content,
                        old.version + 1)
         IN  DbOutcome([d EXCEPT !.rows[document_id] = row],
                       "", "", <<row>>, FALSE)

UpdateDocument_noFieldCheck(d, document_id, title, content, backend) ==
    IF ~d.pool THEN DbRaise(d, "Database not connected")
    ELSE RunUpdate(d, document_id, title, content, backend)

UpdateDocument(d, document_id, title, content, backend) ==
    IF ~d.pool THEN DbRaise(d, "Database not connected")
    ELSE IF ~Truthy(title) /\ ~Truthy(content)
    THEN DbRaise(d, "At least one field (title or content) must be provided")
    ELSE RunUpdate(d, document_id, title, content, backend)

\* DELETE FROM documents WHERE id = $1; True when the status is "DELETE 1"
DeleteDocument(d, document_id, backend) ==
    IF ~d.pool THEN DbRaise(d, "Database not connected")
    ELSE IF backend = "error" THEN DbRaise(d, "Failed to delete document")
    ELSE IF document_id \notin DOMAIN d.rows
    THEN DbOutcome(d, "", "", NoRow, FALSE)
    ELSE DbOutcome([d EXCEPT !.rows = [i \in DOMAIN d.rows \ {document_id}
                                          |-> d.rows[i]]],
                   "", "", NoRow, TRUE)

DocIds == 1..MaxDocs
NewTitles == {NoneStr, "", "t2"}
NewContents == {NoneStr, "c2"}
NoRows == [i \in {} |-> Row("", "", 1)]
NoDbCall ==
    [op |-> "none", id |-> 0, title |-> NoneStr, content |-> NoneStr,
     raised |-> "", detail |-> "", row |-> NoRow, deleted |-> FALSE,
     updates |-> [i \in DocIds |-> 0]]

\* an empty table; the pool is there when connect() succeeded
DatabaseInit ==
    /\ db \in [rows : {NoRows}, ids_issued : {0}, pool : BOOLEAN]
    /\ dbres = NoDbCall

DbCall(op, id, title, content, out, updates) ==
    /\ db' = out.db
    /\ dbres' = [op |-> op, id |-> id, title |-> title, content |-> content,
                 raised |-> out.raised, detail |-> out.detail,
                 row |-> out.row, deleted |-> out.deleted,
                 updates |-> updates]
    /\ UNCHANGED <<updateServiceVars, queryServiceVars, batchVars,
                   lifespanVars, metricsVars>>

CreateDocumentCall ==
    /\ db.ids_issued < MaxDocs
    /\ \E backend \in Backends :
          \E out \in {CreateDocument(db, "t1", "c1", backend)} :
             DbCall("create", out.db.ids_issued, "t1", "c1", out,
                    dbres.updates)

UpdateDocumentCall ==
    \E id \in DocIds, title \in NewTitles, content \in NewContents,
       backend \in Backends :
       \E out \in {UpdateDocument(db, id, title, content, backend)} :
          /\ \A i \in DOMAIN out.db.rows :
                out.db.rows[i].version <= MaxVersion
          /\ DbCall("update", id, title, content, out,
                    IF out.raised = "" /\ Len(out.row) > 0
                    THEN [dbres.updates EXCEPT ![id] = @ + 1]
                    ELSE dbres.updates)

DeleteDocumentCall ==
    \E id \in DocIds, backend \in Backends :
       \E out \in {DeleteDocument(db, id, backend)} :
          DbCall("delete", id, NoneStr, NoneStr, out, dbres.updates)

DatabaseNext == CreateDocumentCall \/ UpdateDocumentCall \/ DeleteDocumentCall

----------------------------------------------------------------------------
(* BatchProcessor *)

MaxItems == 3
MaxTime == 3
MaxBatchSize == 2
settings_batch_size == 10
settings_batch_timeout_seconds == 5

RECURSIVE Flatten(_)
Flatten(batches) ==
    IF batches = <<>> THEN <<>>
    ELSE Head(batches) \o Flatten(Tail(batches))

Min(a, b) == IF a < b THEN a ELSE b

\* the pops of _process_batch: a batch and what stays in the buffer
TakeBatch_newestFirst(buffer, batch_size) ==
    LET n == Min(batch_size, Len(buffer))
    IN  [batch |-> [i \in 1..n |-> buffer[Len(buffer) - i + 1]],
         rest |-> SubSeq(buffer, 1, Len(buffer) - n)]

\* batch = [self.buffer.popleft()
\*          for _ in range(min(self.batch_size, len(self.buffer)))]
TakeBatch(buffer, batch_size) ==
    LET n == Min(batch_size, Len(buffer))
    IN  [batch |-> SubSeq(buffer, 1, n),
         rest |-> SubSeq(buffer, n + 1, Len(buffer))]

\* _process_batch up to the await of the handler, called by `caller` under
\* the lock: with an empty buffer or no handler it returns at once and the
\* object is as before; otherwise the handler starts on the popped batch
\* while the caller keeps the lock
ProcessBatch(b, caller) ==
    IF Len(b.buffer) = 0 \/ ~b.process_batch THEN b
    ELSE LET t == TakeBatch(b.buffer, b.batch_size)
         IN  [b EXCEPT !.buffer = t.rest,
                       !.last_batch_time = b.now,
                       !.running = Append(b.running, t.batch),
                       !.handed = Append(b.handed, t.batch),
                       !.lock = caller]

\* __init__(batch_size, batch_timeout, process_batch)
NewBatchProcessor(batch_size, batch_timeout, process_batch) ==
    [batch_size |-> OrDefault(batch_size, settings_batch_size),
     batch_timeout |-> OrDefault(batch_timeout,
                                 settings_batch_timeout_seconds),
     process_batch |-> process_batch,
     buffer |-> <<>>,
     last_batch_time |-> 0,
     lock |-> "free",
     task |-> "none",
     \* ---- the environment and the history ----
     wake |-> 0,        \* when the sleep of the timer task ends
     now |-> 0,         \* the clock
     running |-> <<>>,  \* the batches the handler is working on
     timers |-> 0,      \* the timer tasks created and not yet ended
     error |-> "",      \* the exception of the last handler run
     handed |-> <<>>,   \* the batches given to the handler, in order
     added |-> 0]       \* the number of add calls; the items are 1, 2, ...

BatchSizeArgs == {NotPassed} \cup 1..MaxBatchSize
BatchTimeoutArgs == {1, 2}

BatchInit ==
    \E batch_size \in BatchSizeArgs, batch_timeout \in BatchTimeoutArgs,
       process_batch \in BOOLEAN :
       bp = NewBatchProcessor(batch_size, batch_timeout, process_batch)

BatchFrame ==
    UNCHANGED <<updateServiceVars, queryServiceVars, databaseVars,
                lifespanVars, metricsVars>>

LockFree_unguarded(b) == TRUE

\* `async with self._lock` is entered only when no coroutine holds the lock
LockFree(b) == b.lock = "free"

TimerNeeded_always(task) == TRUE

\* if self._task is None or self._task.done()
TimerNeeded(task) == task \in {"none", "done"}

\* add(item): under the lock, append; a full buffer is processed, an
\* underfull one arms the timer task unless one is pending.  The clock
\* bound leaves room for the timer this add may arm.
Add ==
    /\ LockFree(bp)
    /\ bp.added < MaxItems
    /\ bp.now + bp.batch_timeout <= MaxTime
    /\ LET item == bp.added + 1
           b == [bp EXCEPT !.buffer = Append(bp.buffer, item),
                           !.added = item]
       IN  bp' = IF Len(b.buffer) >= b.batch_size
                 THEN ProcessBatch(b, "add")
                 ELSE IF TimerNeeded(b.task)
                 THEN [b EXCEPT !.task = "sleeping",
                                !.timers = @ + 1,
                                !.wake = b.now + b.batch_timeout]
                 ELSE b
    /\ BatchFrame

\* _timeout_processor after its sleep: under the lock, process the buffer
\* if it is not empty and batch_timeout has passed since the last batch
TimeoutProcessor ==
    /\ bp.task = "sleeping"
    /\ bp.now >= bp.wake
    /\ LockFree(bp)
    /\ bp' = IF Len(bp.buffer) > 0
                /\ bp.now - bp.last_batch_time >= bp.batch_timeout
             THEN LET b == ProcessBatch(bp, "timer")
                  IN  IF Len(b.running) > Len(bp.running)
                      THEN [b EXCEPT !.task = "running"]
                      ELSE [b EXCEPT !.task = "done", !.timers = @ - 1]
             ELSE [bp EXCEPT !.task = "done", !.timers = @ - 1]
    /\ BatchFrame

\* flush(): under the lock, `while self.buffer: await self._process_batch()`.
\* Without a handler _process_batch returns at once with the buffer as it
\* was, and the loop goes on holding the lock.
Flush ==
    /\ LockFree(bp)
    /\ Len(bp.buffer) > 0
    /\ bp' = [ProcessBatch(bp, "flush") EXCEPT !.lock = "flush"]
    /\ BatchFrame

HandlerEnds_requeues(b, ok) ==
    [b EXCEPT !.running = Tail(@),
              !.buffer = IF ok THEN @ ELSE Head(b.running) \o @,
              !.error = IF ok THEN "" ELSE "Exception",
              !.task = IF b.lock = "timer" THEN "done" ELSE @,
              !.timers = IF b.lock = "timer" THEN @ - 1 ELSE @]

\* the handler returns, or raises and _process_batch logs and raises again:
\* the batch is no longer worked on, and a timer task that called it ends
HandlerEnds(b, ok) ==
    [b EXCEPT !.running = Tail(@),
              !.error = IF ok THEN "" ELSE "Exception",
              !.task = IF b.lock = "timer" THEN "done" ELSE @,
              !.timers = IF b.lock = "timer" THEN @ - 1 ELSE @]

\* `while self.buffer` of flush is reached again when the handler returned;
\* its exception is raised again by _process_batch and ends the caller
LoopGoesOn(caller, ok, buffer) == caller = "flush" /\ ok /\ Len(buffer) > 0

\* the handler returns or raises; the exception leaves _process_batch and
\* its caller, which releases the lock; the loop of flush goes on after a
\* return while the buffer is not empty
HandlerReturn ==
    /\ Len(bp.running) > 0
    /\ \E ok \in BOOLEAN :
          LET b == HandlerEnds(bp, ok)
          IN  bp' = IF LoopGoesOn(bp.lock, ok, b.buffer)
                    THEN ProcessBatch(b, "flush")
                    ELSE [b EXCEPT !.lock = "free"]
    /\ BatchFrame

\* time passes
Tick ==
    /\ bp.now < MaxTime
    /\ bp' = [bp EXCEPT !.now = @ + 1]
    /\ BatchFrame

BatchNext == Add \/ TimeoutProcessor \/ Flush \/ HandlerReturn \/ Tick

----------------------------------------------------------------------------
(* ServiceContainer and the lifespan of the update service *)

MaxHandled == 3

\* initialize(): the connect calls, in the order of the awaits
InitializeOrder(dlq_enabled) ==
    <<"vector_db", "cache_service", "database">>
       \o (IF dlq_enabled THEN <<"dlq_service">> ELSE <<>>)

\* shutdown(): the disconnect calls, in the order of the awaits
ShutdownOrder(dlq_enabled) ==
    (IF dlq_enabled THEN <<"dlq_service">> ELSE <<>>)
       \o <<"database", "vector_db", "cache_service">>

Call(op, client) == [op |-> op, client |-> client]

\* the calls of one kind made so far, in order
RECURSIVE ClientsOf(_, _)
ClientsOf(calls, op) ==
    IF calls = <<>> THEN <<>>
    ELSE (IF Head(calls).op = op THEN <<Head(calls).client>> ELSE <<>>)
            \o ClientsOf(Tail(calls), op)

\* the process starts: no client is connected and lifespan has not run
LifespanInit ==
    \E dlq_enabled \in BOOLEAN :
       lc = [dlq_enabled |-> dlq_enabled, phase |-> "startup",
             connected |-> {}, calls |-> <<>>, consumer |-> "none",
             handled |-> 0]

LifespanFrame ==
    UNCHANGED <<updateServiceVars, queryServiceVars, databaseVars, batchVars,
                metricsVars>>

\* one await of initialize(); a connect that raises ends lifespan, and when
\* the last one has returned lifespan creates the consumer task and yields
Connect ==
    /\ lc.phase = "startup"
    /\ LET order == InitializeOrder(lc.dlq_enabled)
           client == order[Len(lc.calls) + 1]
       IN  \E ok \in BOOLEAN :
              lc' = IF ~ok
                    THEN [lc EXCEPT !.phase = "failed",
                                    !.calls = Append(@, Call("connect",
                                                             client))]
                    ELSE [lc EXCEPT
                            !.connected = @ \cup {client},
                            !.calls = Append(@, Call("connect", client)),
                            !.phase = IF Len(lc.calls) + 1 = Len(order)
                                      THEN "serving" ELSE @,
                            !.consumer = IF Len(lc.calls) + 1 = Len(order)
                                         THEN "created" ELSE @]
    /\ LifespanFrame

\* consume_kafka_events: await consumer.start()
ConsumerStart ==
    /\ lc.consumer = "created"
    /\ lc' = [lc EXCEPT !.consumer = "polling"]
    /\ LifespanFrame

\* the loop takes a message and awaits process_event for it
ProcessEventBegins ==
    /\ lc.consumer = "polling"
    /\ lc.handled < MaxHandled
    /\ lc' = [lc EXCEPT !.consumer = "handling"]
    /\ LifespanFrame

\* process_event, and the DLQ send after its failure, have ended
ProcessEventEnds ==
    /\ lc.consumer = "handling"
    /\ lc' = [lc EXCEPT !.consumer = "polling", !.handled = @ + 1]
    /\ LifespanFrame

\* the application stops: lifespan goes on after its yield
ShutdownBegins ==
    /\ lc.phase = "serving"
    /\ lc' = [lc EXCEPT !.phase = "shutdown"]
    /\ LifespanFrame

\* one await of shutdown(); lifespan ends after the last one
Disconnect ==
    /\ lc.phase = "shutdown"
    /\ LET order == ShutdownOrder(lc.dlq_enabled)
           done == Len(ClientsOf(lc.calls, "disconnect"))
           client == order[done + 1]
       IN  lc' = [lc EXCEPT !.connected = @ \ {client},
                            !.calls = Append(@, Call("disconnect", client)),
                            !.phase = IF done + 1 = Len(order)
                                      THEN "stopped" ELSE @]
    /\ LifespanFrame

\* after lifespan has ended the event loop closes and cancels the consumer
\* task, whose `finally` stops the consumer
ConsumerCancelled ==
    /\ lc.phase = "stopped"
    /\ lc.consumer \in {"created", "polling", "handling"}
    /\ lc' = [lc EXCEPT !.consumer = "stopped"]
    /\ LifespanFrame

LifespanNext ==
    \/ Connect \/ ConsumerStart \/ ProcessEventBegins \/ ProcessEventEnds
    \/ ShutdownBegins \/ Disconnect \/ ConsumerCancelled

----------------------------------------------------------------------------
(* metrics_tracker: the sample buffers *)

MaxSamples == 102
SAMPLES_MAXLEN == 100

\* deque(maxlen=...).append(x): a full deque drops its leftmost element
DequeAppend(samples, x, maxlen) ==
    IF Len(samples) >= maxlen THEN Append(Tail(samples), x)
    ELSE Append(samples, x)

\* seq[start:] of Python: a negative start counts from the end
SliceFrom(seq, start) ==
    LET lo == IF start < 0
              THEN (IF Len(seq) + start < 0 THEN 0 ELSE Len(seq) + start)
              ELSE (IF start > Len(seq) THEN Len(seq) ELSE start)
    IN  SubSeq(seq, lo + 1, Len(seq))

\* list(samples)[-count:]
GetSamples(samples, count) == SliceFrom(samples, 0 - count)

SampleCounts == {0, 1, 10, 100, 150}
Buffers == {"_update_lag_samples", "_query_latency_samples"}

\* one of the two buffers, empty when the module is loaded
MetricsInit ==
    \E b \in Buffers :
       mt = [buffer |-> b, samples |-> <<>>, added |-> 0, got |-> <<>>]

MetricsFrame ==
    UNCHANGED <<updateServiceVars, queryServiceVars, databaseVars, batchVars,
                lifespanVars>>

\* add_update_lag_sample / add_query_latency_sample: the samples are 1, 2, ...
AddSample ==
    /\ mt.added < MaxSamples
    /\ mt' = [mt EXCEPT !.samples = DequeAppend(@, mt.added + 1,
                                               SAMPLES_MAXLEN),
                        !.added = @ + 1]
    /\ MetricsFrame

\* get_update_lag_samples(count) / get_query_latency_samples(count)
GetSamplesCall ==
    /\ \E count \in SampleCounts :
          mt' = [mt EXCEPT !.got = <<[count |-> count,
                                      size |-> Len(mt.samples),
                                      last |-> mt.added,
                                      result |-> GetSamples(mt.samples,
                                                            count)]>>]
    /\ MetricsFrame

MetricsNext == AddSample \/ GetSamplesCall

----------------------------------------------------------------------------
(* Specifications *)

RetryIdle ==
    rt = [args |-> [max_retries |-> NotPassed, delay |-> NotPassed,
                    backoff_multiplier |-> NotPassed,
                    exceptions |-> {"Exception"}],
          status |-> "idle", attempt |-> 0, calls |-> <<>>,
          waits |-> <<>>, value |-> <<>>]
ParseIdle == raw = EmptyDict /\ parsed = [done |-> TRUE, result |-> <<>>]

CacheIdle ==
    cache_client = FALSE /\ redis = EmptyKeyspace /\ cres = NoCacheCall
QueryIdle ==
    /\ world = [ranked |-> <<>>, answer |-> CHOOSE a \in Answers : TRUE]
    /\ req = NoRequest /\ qres = NoResult /\ qeff = NoCalls /\ qhist = <<>>
ContextIdle ==
    bc = [matches |-> <<>>, done |-> TRUE, context |-> <<>>,
          used_matches |-> <<>>]
FilterIdle ==
    fs = [sources |-> <<>>, confidence |-> 0, is_complete |-> FALSE,
          done |-> TRUE, result |-> <<>>]
PageIdle ==
    pg = [sources |-> <<>>, page |-> 1, page_size |-> 1, done |-> TRUE,
          result |-> <<>>, pagination |-> <<>>]
DatabaseIdle ==
    db = [rows |-> NoRows, ids_issued |-> 0, pool |-> FALSE]
    /\ dbres = NoDbCall
BatchIdle == bp = NewBatchProcessor(NotPassed, NotPassed, FALSE)
LifespanIdle ==
    lc = [dlq_enabled |-> FALSE, phase |-> "failed", connected |-> {},
          calls |-> <<>>, consumer |-> "none", handled |-> 0]
MetricsIdle ==
    mt = [buffer |-> "_update_lag_samples", samples |-> <<>>,
          added |-> MaxSamples, got |-> <<>>]
StandaloneIdle == DatabaseIdle /\ BatchIdle /\ LifespanIdle /\ MetricsIdle
\* the query service at rest, and the update service at rest
QueryServiceIdle ==
    CacheIdle /\ QueryIdle /\ ContextIdle /\ FilterIdle /\ PageIdle
UpdateServiceIdle ==
    PipelineInit /\ config.dlq_enabled /\ RetryIdle /\ ParseIdle
ServicesIdle == UpdateServiceIdle /\ QueryServiceIdle

\* the update service: consumer loop, event processor, vector store, DLQ
Init == PipelineInit /\ RetryIdle /\ ParseIdle /\ QueryServiceIdle
        /\ StandaloneIdle
Next == PipelineNext
Spec == Init /\ [][Next]_vars

\* retry_with_backoff over every argument list and every run of the operation
InitRetry == RetryInit /\ PipelineInit /\ ParseIdle /\ QueryServiceIdle
        /\ StandaloneIdle
SpecRetry == InitRetry /\ [][RetryNext]_vars

\* _parse_event over every payload of RawEvents
InitParse == ParseInit /\ PipelineInit /\ RetryIdle /\ QueryServiceIdle
        /\ StandaloneIdle
SpecParse == InitParse /\ [][ParseStep]_vars

\* CacheService over every keyspace of CacheKeys and every call
InitCache ==
    CacheInit /\ UpdateServiceIdle /\ QueryIdle /\ ContextIdle /\ FilterIdle
              /\ PageIdle /\ StandaloneIdle
SpecCache == InitCache /\ [][CacheNext]_vars

\* the query service: process_query calls over a cache that starts empty
InitQuery ==
    QueryInit /\ UpdateServiceIdle /\ ContextIdle /\ FilterIdle /\ PageIdle
              /\ StandaloneIdle
SpecQuery == InitQuery /\ [][QueryNext]_vars

\* _build_context over every list of matches
InitContext ==
    ContextInit /\ UpdateServiceIdle /\ CacheIdle /\ QueryIdle /\ FilterIdle
                /\ PageIdle /\ StandaloneIdle
SpecContext == InitContext /\ [][BuildContextStep]_vars

\* _filter_sources over every list of sources and every LLM result
InitFilter ==
    FilterInit /\ UpdateServiceIdle /\ CacheIdle /\ QueryIdle /\ ContextIdle
               /\ PageIdle /\ StandaloneIdle
SpecFilter == InitFilter /\ [][FilterSourcesStep]_vars

\* _paginate_sources over every list of sources, page and page_size
InitPage ==
    PageInit /\ UpdateServiceIdle /\ CacheIdle /\ QueryIdle /\ ContextIdle
             /\ FilterIdle /\ StandaloneIdle
SpecPage == InitPage /\ [][PaginateSourcesStep]_vars

\* DatabaseService over every order of create, update and delete calls
InitDatabase ==
    DatabaseInit /\ ServicesIdle /\ BatchIdle /\ LifespanIdle /\ MetricsIdle
SpecDatabase == InitDatabase /\ [][DatabaseNext]_vars

\* BatchProcessor over every interleaving of add, timer, flush and handler
InitBatch ==
    BatchInit /\ ServicesIdle /\ DatabaseIdle /\ LifespanIdle /\ MetricsIdle
SpecBatch == InitBatch /\ [][BatchNext]_vars

\* the same with the scheduling of the event loop: a handler that runs ends,
\* a timer task whose sleep is over runs, and time passes
SpecBatchLive ==
    SpecBatch /\ WF_vars(HandlerReturn) /\ WF_vars(TimeoutProcessor)
              /\ WF_vars(Tick)

\* the service container and the consumer task from start to shutdown
InitLifespan ==
    LifespanInit /\ ServicesIdle /\ DatabaseIdle /\ BatchIdle /\ MetricsIdle
SpecLifespan == InitLifespan /\ [][LifespanNext]_vars

\* a sample buffer over every run of adds and gets
InitMetrics ==
    MetricsInit /\ ServicesIdle /\ DatabaseIdle /\ BatchIdle /\ LifespanIdle
SpecMetrics == InitMetrics /\ [][MetricsNext]_vars

----------------------------------------------------------------------------
(* Properties *)

\* the handling of msg has ended and the loop waits for the next message
Done == pc = "poll" /\ outcome # "none"

\* msg carries an event object, and that object
IsEvent(m) == IsDict(EventData(m.value))
EventDict(m) == EventData(m.value).d

\* the non-"__" part of an event object
Fields(d) == [k \in {x \in DOMAIN d : x \notin {"__op", "__deleted",
                                                 "__source_ts_ms"}} |-> d[k]]

\* the points of the store, and those stored at a point id
Points == BagToSet(store)
PointsAt(id) == {p \in Points : p.id = id}

\* the DLQ messages recorded for msg
DLQMessagesOfMsg ==
    {i \in 1..Len(dlqTopic) : /\ dlqTopic[i].offset = msg.offset
                              /\ dlqTopic[i].partition = msg.partition}

\* C1: once a delete event carrying the id string s has been processed
\* without error, the vector store holds no point whose payload document_id
\* is s, whatever create/update events were processed before.
C1_DeleteLeavesNoPointOfDocument ==
    (/\ Done
     /\ outcome = "returned"
     /\ IsEvent(msg)
     /\ EventOf(msg) # <<>>
     /\ EventOf(msg)[1].op = "d"
     /\ "id" \in DOMAIN EventDict(msg))
    => \A p \in Points : p.payload.document_id # EventDict(msg)["id"]

\* C2: for every id string and every chunk index the content of its last
\* processed create/update event splits into, the store holds exactly one
\* point at the deterministic chunk id, once, with that document_id and
\* chunk_index and a payload version >= the version of that event.
C2_CurrentChunksStoredOnce ==
    \A s \in DOMAIN current :
       current[s] # <<>> =>
          \A i \in 1..Len(SplitText(current[s][1].content)) :
             /\ Cardinality(PointsAt(ChunkUuid(s, i - 1))) = 1
             /\ \A p \in PointsAt(ChunkUuid(s, i - 1)) :
                   /\ CopiesIn(p, store) = 1
                   /\ p.payload.document_id = s
                   /\ p.payload.chunk_index = i - 1
                   /\ p.payload.version >= current[s][1].version

\* an update with version 2 has overwritten chunk 0 of a two-chunk create
C2_Witness ==
    /\ Done
    /\ outcome = "returned"
    /\ current["ab12"] = <<[content |-> "S", version |-> 2]>>
    /\ \E p \in PointsAt(ChunkUuid("ab12", 0)) : p.payload.version = 2
    /\ \E p \in PointsAt(ChunkUuid("ab12", 1)) : p.payload.version = 1

\* C3: when a create/update event that was processed and wrote its points is
\* delivered again, the second run leaves the vector store exactly as the
\* first run left it.
C3_RedeliveryLeavesStoreUnchanged ==
    [][(redelivered /\ pc = "upsert" /\ pc' = "poll") => store' = store]_vars

\* the second run of a redelivered event has written its points
C3_Witness ==
    /\ Done
    /\ redelivered
    /\ outcome = "returned"
    /\ eff.writes = 1

\* C4: _parse_event returns None exactly for a payload with no key outside
\* the "__" keys; otherwise __deleted == "true" gives op = d whatever __op and
\* op say, no "__" key is in before or after, and the non-"__" fields are
\* bound to before (after = None) for op = d and to after (before = None)
\* for every other op.
C4_ParseNormalization ==
    parsed.done /\ raw \in RawEvents =>
       /\ (parsed.result = <<>>) <=> (DOMAIN Fields(raw) = {})
       /\ parsed.result # <<>> =>
             LET e == parsed.result[1] IN
             /\ Get(raw, "__deleted", NoneStr) = "true" => e.op = "d"
             /\ \A side \in {e.before, e.after} :
                   side # NoneDict =>
                      DOMAIN side[1] \cap {"__op", "__deleted",
                                           "__source_ts_ms"} = {}
             /\ e.op = "d" => e.before = Some(Fields(raw)) /\ e.after = NoneDict
             /\ e.op # "d" => e.after = Some(Fields(raw)) /\ e.before = NoneDict

\* a payload with __deleted = "true", __op = "c" and op = "u" parsed as delete
C4_Witness ==
    /\ parsed.done
    /\ {"__deleted", "__op", "op", "id"} \subseteq DOMAIN raw
    /\ raw["__deleted"] = "true" /\ raw["__op"] = "c" /\ raw["op"] = "u"
    /\ parsed.result # <<>>
    /\ parsed.result[1].op = "d"
    /\ parsed.result[1].after = NoneDict

\* the malformed events of C5: nothing outside the "__" keys, an op that is
\* none of c/u/d, or a create/update with no id, empty content or no chunk
DroppedCase(m) ==
    /\ IsEvent(m)
    /\ LET d == EventDict(m)
           op == IF Get(d, "__deleted", NoneStr) = "true" THEN "d"
                 ELSE PyOr(Get(d, "__op", NoneStr), Get(d, "op", "c"))
       IN  \/ DOMAIN Fields(d) = {}
           \/ op \notin {"c", "u", "d"}
           \/ /\ op \in {"c", "u"}
              /\ \/ ~Truthy(Get(d, "id", NoneStr))
                 \/ ~Truthy(Get(d, "content", ""))
                 \/ SplitText(Get(d, "content", "")) = <<>>

\* C5: for a malformed event process_event returns normally at once: no
\* embedding call, no vector-store write or delete, no cache delete, no
\* send_failed_event call and no DLQ message.
C5_MalformedEventIsDropped ==
    DroppedCase(msg) =>
       /\ pc \in {"handle", "poll"}
       /\ pc = "poll" => outcome = "returned"
       /\ eff = NoEffect
       /\ dlqCall = <<>>
       /\ DLQMessagesOfMsg = {}
       /\ <<msg.partition, msg.offset>> \notin failed

\* a create whose blank content gives the chunker nothing has been dropped
C5_Witness ==
    /\ Done
    /\ DroppedCase(msg)
    /\ outcome = "returned"
    /\ Get(EventDict(msg), "content", "") = "ws"

\* C6: every exception raised while a message is handled takes the loop to
\* the except branch, which makes exactly one send_failed_event call with the
\* event, the error string, the topic, the offset and the partition; whether
\* that call succeeds or fails the loop then waits for the next message, and
\* no call is made for a message whose handling did not raise.
C6_EveryExceptionOneDLQCall ==
    /\ pc \in {"poll", "handle", "delete", "embed", "sleep_embed", "upsert",
               "sleep_upsert", "dlq"}
    /\ outcome = "raised" =>
          /\ error # ""
          /\ <<msg.partition, msg.offset>> \in failed
          /\ pc \in {"dlq", "poll"}
          /\ pc = "dlq" => dlqCall = <<>>
          /\ pc = "poll" =>
                /\ Len(dlqCall) = 1
                /\ dlqCall[1].args = [event_data |-> EventDict(msg),
                                      error |-> error,
                                      original_topic |-> kafka_topic_documents,
                                      offset |-> msg.offset,
                                      partition |-> msg.partition]
    /\ outcome # "raised" => dlqCall = <<>> /\ pc # "dlq"
    /\ (pc = "poll" /\ Delivered < MaxMessages) => ENABLED Consume

\* the first message raised and its DLQ send failed; the loop has gone on to
\* the second message, whose DLQ send has failed too
C6_Witness ==
    /\ config.dlq_enabled
    /\ <<0, 0>> \in failed
    /\ dlqTopic = <<>>
    /\ msg.offset = 1
    /\ Done
    /\ outcome = "raised"
    /\ dlqCall[1].raised = "DLQError"

\* C7 as claimed: an event whose embedding fails on every attempt ends with
\* exactly one DLQ message, no upsert and no cache delete.
C7_EmbeddingFailureGivesOneDLQMessage ==
    (Done /\ error = "EmbeddingError") =>
       /\ Cardinality(DLQMessagesOfMsg) = 1
       /\ eff.upsertCalls = 0
       /\ eff.cacheDeletes = 0

\* C7 amended: an event whose embedding fails on every attempt has had
\* settings.max_retries + 1 embedding calls, no upsert call, no write and no
\* cache delete, and exactly one send_failed_event call; the DLQ topic holds
\* exactly one message for it, carrying the event, the error string, the
\* topic, the offset and the partition, when the DLQ is enabled and the send
\* succeeds, and no message when the DLQ is disabled or the send fails.
C7_EmbeddingFailureGivesOneDLQCall ==
    (Done /\ error = "EmbeddingError") =>
       /\ eff.embedCalls = settings_max_retries + 1
       /\ eff.upsertCalls = 0
       /\ eff.writes = 0
       /\ eff.cacheDeletes = 0
       /\ Len(dlqCall) = 1
       /\ Cardinality(DLQMessagesOfMsg) =
             IF config.dlq_enabled /\ dlqCall[1].raised = "" THEN 1 ELSE 0
       /\ \A i \in DLQMessagesOfMsg :
             dlqTopic[i] = [original_event |-> EventDict(msg),
                            error |-> "EmbeddingError",
                            original_topic |-> kafka_topic_documents,
                            offset |-> msg.offset,
                            partition |-> msg.partition]

\* the embedding retries are exhausted and the DLQ holds the event
C7_Witness ==
    /\ Done
    /\ error = "EmbeddingError"
    /\ Cardinality(DLQMessagesOfMsg) = 1

\* C8 as claimed: the consumer is at a later offset of a partition only when
\* every failed event before it in that partition is stored in the DLQ.
C8_AdvanceOnlyAfterDLQAccepts ==
    \A f \in failed :
       (msg.partition = f[1] /\ msg.offset > f[2]) =>
          \E i \in 1..Len(dlqTopic) :
             dlqTopic[i].partition = f[1] /\ dlqTopic[i].offset = f[2]

\* C8 amended: the consumer takes the next message after a failed event only
\* when the send_failed_event call for the failed event has been made and has
\* ended, whether or not the DLQ stored the event.
C8_AdvanceOnlyAfterDLQCall ==
    [][(nextOffset' # nextOffset /\ outcome = "raised") =>
          (pc = "poll" /\ Len(dlqCall) = 1)]_vars

\* the consumer handles offset 1 while the failed event of offset 0 is not in
\* the DLQ, which is enabled
C8_Witness ==
    /\ config.dlq_enabled
    /\ <<0, 0>> \in failed
    /\ msg.partition = 0 /\ msg.offset = 1
    /\ pc = "handle"
    /\ \A i \in 1..Len(dlqTopic) : dlqTopic[i].offset # 0

\* every call of the run raised an error of a class in `exceptions`
AllCallsRetriable ==
    \A i \in 1..Len(rt.calls) :
       rt.calls[i] # "ok" /\ IsInstance(rt.calls[i], rt.args.exceptions)

\* C9: with max_retries = N >= 0 passed explicitly and an operation that
\* always fails with a retriable error, the operation is called exactly N + 1
\* times and the error of the last call is raised.
C9_FailingOpCalledNPlusOneTimes ==
    (/\ rt.status = "raised"
     /\ rt.args.max_retries >= 0
     /\ AllCallsRetriable)
    => /\ Len(rt.calls) = rt.args.max_retries + 1
       /\ rt.value = <<rt.calls[Len(rt.calls)], Len(rt.calls)>>

\* C10: a call that succeeds is the last call of the run, its result is
\* returned and k - 1 waits were taken before it; and a run whose calls all
\* fail with retriable errors is not given up before attempt max_retries + 1,
\* so a success on any attempt k <= max_retries + 1 is reached.
C10_SuccessOnKthAttempt ==
    /\ \A i \in 1..Len(rt.calls) :
          rt.calls[i] = "ok" =>
             /\ i = Len(rt.calls)
             /\ rt.status = "returned"
             /\ rt.value = <<"result", i>>
             /\ Len(rt.waits) = i - 1
             /\ rt.attempt = i - 1
    /\ rt.status = "returned" =>
          Len(rt.calls) > 0 /\ rt.calls[Len(rt.calls)] = "ok"
    /\ (rt.status = "raised" /\ rt.args.max_retries >= 0 /\ AllCallsRetriable)
          => Len(rt.calls) >= rt.args.max_retries + 1

\* success on the last attempt allowed, attempt max_retries + 1 = 3
C10_Witness ==
    /\ rt.status = "returned"
    /\ rt.args.max_retries = 2
    /\ Len(rt.calls) = 3
    /\ rt.value = <<"result", 3>>

\* C11: an error whose class is not in the retriable set is raised to the
\* caller by the attempt on which it occurs: that call is the last call of
\* the run, the error raised is that error, and no wait follows it.
C11_NonRetriablePropagatesAtOnce ==
    \A i \in 1..Len(rt.calls) :
       (/\ rt.calls[i] # "ok"
        /\ rt.calls[i] \notin rt.args.exceptions
        /\ "Exception" \notin rt.args.exceptions)
       => /\ i = Len(rt.calls)
          /\ rt.status = "raised"
          /\ rt.value = <<rt.calls[i], i>>
          /\ Len(rt.waits) = i - 1
          /\ rt.attempt = i - 1

\* a retriable VectorDBError was retried once, then an EmbeddingError, not in
\* the set, came on the second attempt with retries left
C11_Witness ==
    /\ rt.args.exceptions = {"VectorDBError"}
    /\ rt.args.max_retries = 3
    /\ rt.calls = <<"VectorDBError", "EmbeddingError">>
    /\ rt.status = "raised"
    /\ rt.value = <<"EmbeddingError", 2>>
    /\ rt.waits = <<1>>

\* C12: a failure of the vector-store backend during upsert reaches the
\* consumer only after the retries are exhausted, that is after
\* settings.max_retries + 1 upsert attempts for the event.
C12_BackendUpsertFailureIsRetried ==
    (outcome = "raised" /\ error = "UnexpectedResponse")
    => eff.upsertCalls = RetryLimit + 1

\* C13: get and get_json raise nothing; they give None when the client is
\* not connected or the backend raises, and get_json gives None when the
\* string stored under the key is not JSON.
C13_CacheReadsFailOpen ==
    cres.op \in {"get", "get_json"} =>
       /\ cres.raised = ""
       /\ (~cache_client \/ cres.backend = "error") => Len(cres.value) = 0
       /\ (/\ cres.op = "get_json"
           /\ cres.key \in DOMAIN redis
           /\ redis[cres.key].kind = "text") => Len(cres.value) = 0

\* get_json on a connected client whose backend answers with text that is
\* not JSON
C13_Witness ==
    /\ cres.op = "get_json"
    /\ cache_client
    /\ cres.backend = "ok"
    /\ cres.key \in DOMAIN redis
    /\ redis[cres.key].kind = "text"
    /\ redis[cres.key].v = "not json"
    /\ cres.raised = ""
    /\ Len(cres.value) = 0

\* C14: process_query fails only when embedding, vector search or the LLM
\* fails; with those three succeeding it returns a response whatever the
\* cache backend does.
C14_QueryAvailableUnderCacheDegradation ==
    qres.kind = "raised" =>
       qres.error \in {"EmbeddingError", "VectorDBError", "LLMError"}

\* C15: a process_query call that ends in a cache hit returns the response
\* stored under the key of its query string, leaves the cache as it was and
\* makes no embedding call, no vector search, no LLM call and no cache write.
C15_CacheHitReturnsStoredResponse ==
    [][(queryVars' # queryVars /\ qres'.kind = "hit") =>
          /\ GetCacheKey(req'.query) \in DOMAIN redis
          /\ redis[GetCacheKey(req'.query)] = JsonDumps(qres'.response[1])
          /\ redis' = redis
          /\ qeff' = NoCalls]_vars

\* a request computed and cached, then a request for the same query answered
\* from the cache
C15_Witness ==
    /\ qres.kind = "hit"
    /\ Len(qhist) = 1
    /\ qhist[1].kind = "computed"
    /\ qeff = NoCalls
    /\ GetCacheKey(req.query) \in DOMAIN redis

\* C16: a response returned from the cache equals the response process_query
\* computes for the same request (query, top_k, page, page_size) from the
\* same vector-store state and the same LLM answer.
C16_CachedEqualsRecomputed ==
    qres.kind = "hit" =>
       qres.response[1] =
          BuildResponse(req, Search(world.ranked, req.top_k), world.answer)

\* C17: a process_query call whose vector search gives no match returns the
\* fixed not-found response, calls no LLM, writes nothing to the cache and
\* leaves the cache as it was; and the call after a not-found call, made for
\* the same request, is not answered from the cache but embeds and searches
\* again.
C17_NotFoundIsNotCached ==
    [][(queryVars' # queryVars) =>
          /\ (/\ qeff'.search = 1
              /\ qres'.kind # "raised"
              /\ Len(Search(world.ranked, req'.top_k)) = 0)
             => /\ qres'.kind = "not_found"
                /\ qres'.response = <<NotFoundResponse>>
                /\ qeff'.llm = 0
                /\ qeff'.cacheWrites = 0
                /\ redis' = redis
          /\ (/\ Len(qhist') = 1
              /\ qhist'[1].kind = "not_found"
              /\ qhist'[1].identical)
             => /\ qres'.kind # "hit"
                /\ qeff'.embed = 1]_vars

\* a request that found nothing, then the same request, which found nothing
\* again after an embedding call and a search of its own
C17_Witness ==
    /\ qres.kind = "not_found"
    /\ Len(qhist) = 1
    /\ qhist[1].kind = "not_found"
    /\ qhist[1].identical
    /\ qeff.embed = 1 /\ qeff.search = 1 /\ qeff.llm = 0 /\ qeff.cacheWrites = 0
    /\ cache_client
    /\ DOMAIN redis = {}

\* C18: the context _build_context returns is at most MAX_CONTEXT_CHARS long,
\* the 2-character separators between its parts counted; each part is a
\* prefix of the content of the match used for it, and every part but the
\* last is that content whole.
C18_ContextWithinBudget ==
    bc.done =>
       /\ JoinLen(bc.context) <= MAX_CONTEXT_CHARS
       /\ Len(bc.context) = Len(bc.used_matches)
       /\ \A i \in 1..Len(bc.context) :
             /\ bc.context[i].name = bc.used_matches[i].content.name
             /\ bc.context[i].start = bc.used_matches[i].content.start
             /\ bc.context[i].len <= bc.used_matches[i].content.len
             /\ i < Len(bc.context) =>
                   bc.context[i].len = bc.used_matches[i].content.len

\* two chunks of 16000 characters fit with their separator, and the third
\* is cut to the 15996 characters that are left
C18_Witness ==
    /\ bc.done
    /\ Len(bc.matches) = 3
    /\ Len(bc.context) = 3
    /\ bc.context[3].len = 15996
    /\ bc.used_matches[3].content.len = 16000
    /\ JoinLen(bc.context) = MAX_CONTEXT_CHARS

\* C19: _filter_sources returns no source when confidence is 0.0; otherwise,
\* when confidence < 0.3 or the answer is not complete, exactly the sources
\* that are cited and score at least 0.15; otherwise exactly the sources
\* that score at least 0.15, cited or not; always in the order given.
C19_ConfidenceGate ==
    fs.done =>
       LET Kept(i) ==
               IF fs.confidence = 0 THEN FALSE
               ELSE IF fs.confidence < LOW_CONFIDENCE \/ ~fs.is_complete
                    THEN fs.sources[i].cited
                         /\ fs.sources[i].score >= MIN_SIMILARITY_SCORE
                    ELSE fs.sources[i].score >= MIN_SIMILARITY_SCORE
           kept == {i \in 1..Len(fs.sources) : Kept(i)}
       IN  /\ Len(fs.result) = Cardinality(kept)
           /\ \A j \in 1..Len(fs.result) :
                 \E i \in kept :
                    /\ Cardinality({k \in kept : k <= i}) = j
                    /\ fs.result[j] = fs.sources[i]

\* a low-confidence complete answer over three sources: the first similar
\* but not cited, the second cited and similar, the third cited but below
\* the similarity floor; only the second is kept
C19_Witness ==
    /\ fs.done
    /\ fs.confidence = 29 /\ fs.is_complete
    /\ Len(fs.sources) = 3
    /\ ~fs.sources[1].cited /\ fs.sources[1].score = 90
    /\ fs.sources[2].cited /\ fs.sources[2].score = 15
    /\ fs.sources[3].cited /\ fs.sources[3].score = 14
    /\ fs.result = <<fs.sources[2]>>

\* C20: for page >= 1 and page_size >= 1 _paginate_sources returns the slice
\* [(page-1)*page_size, page*page_size) of the sources, at most page_size of
\* them; the pagination dict is present exactly when total > page_size, and
\* then has_next iff page*page_size < total, has_prev iff page > 1 and
\* total_pages = ceil(total/page_size).
C20_Pagination ==
    pg.done =>
       LET total == Len(pg.sources)
           lo == (pg.page - 1) * pg.page_size
           hi == pg.page * pg.page_size
       IN  /\ Len(pg.result) <= pg.page_size
           /\ Len(pg.result) = Cardinality({i \in 1..total : lo < i /\ i <= hi})
           /\ \A j \in 1..Len(pg.result) : pg.result[j] = pg.sources[lo + j]
           /\ Len(pg.pagination) = 1 <=> total > pg.page_size
           /\ Len(pg.pagination) = 1 =>
                 /\ pg.pagination[1].page = pg.page
                 /\ pg.pagination[1].page_size = pg.page_size
                 /\ pg.pagination[1].total = total
                 /\ pg.pagination[1].has_next <=> hi < total
                 /\ pg.pagination[1].has_prev <=> pg.page > 1
                 /\ pg.pagination[1].total_pages * pg.page_size >= total
                 /\ (pg.pagination[1].total_pages - 1) * pg.page_size < total

\* the third and last page of five sources, two to a page
C20_Witness ==
    /\ pg.done
    /\ Len(pg.sources) = 5 /\ pg.page = 3 /\ pg.page_size = 2
    /\ pg.result = <<pg.sources[5]>>
    /\ Len(pg.pagination) = 1
    /\ ~pg.pagination[1].has_next
    /\ pg.pagination[1].has_prev
    /\ pg.pagination[1].total_pages = 3

\* C21: with the DLQ disabled, or its producer not connected, every
\* send_failed_event call returns without an error and the DLQ topic stays
\* empty; the failed event gets its one send_failed_event call and the
\* consumer loop goes on to the next message.
C21_DisabledDLQIsNoOp ==
    (~config.dlq_enabled \/ ~config.dlq_producer) =>
       /\ dlqTopic = <<>>
       /\ \A i \in 1..Len(dlqCall) : dlqCall[i].raised = ""
       /\ (outcome = "raised" /\ pc = "poll") => Len(dlqCall) = 1
       /\ \A f \in failed :
             f[2] < nextOffset[f[1]] /\ (f[2] = msg.offset \/ f[2] < msg.offset)

\* DLQ disabled: the event at offset 0 failed, nothing was sent, and the
\* consumer is handling offset 1
C21_Witness ==
    /\ ~config.dlq_enabled
    /\ <<0, 0>> \in failed
    /\ dlqTopic = <<>>
    /\ msg.offset = 1
    /\ pc = "handle"

\* C22: a document is created with version 1 and every update that returns
\* its row raises the version by exactly 1, so the version of a row is 1
\* plus the number of its successful updates and never decreases while the
\* row exists; an update with neither title nor content raises DatabaseError
\* and leaves the table as it was
C22_VersionCountsUpdates ==
    [][ /\ \A id \in DOMAIN db'.rows :
              /\ db'.rows[id].version = 1 + dbres'.updates[id]
              /\ id \notin DOMAIN db.rows =>
                    dbres'.op = "create" /\ db'.rows[id].version = 1
              /\ id \in DOMAIN db.rows =>
                    db'.rows[id].version =
                       IF /\ dbres'.op = "update" /\ dbres'.id = id
                          /\ dbres'.raised = "" /\ Len(dbres'.row) > 0
                       THEN db.rows[id].version + 1
                       ELSE db.rows[id].version
        /\ (/\ dbres'.op = "update"
            /\ ~Truthy(dbres'.title) /\ ~Truthy(dbres'.content)) =>
              dbres'.raised = "DatabaseError" /\ db' = db
      ]_vars
C22_Witness ==
    /\ dbres.op = "update" /\ dbres.raised = "DatabaseError"
    /\ dbres.title = "" /\ dbres.content = NoneStr
    /\ db.pool /\ dbres.id \in DOMAIN db.rows
    /\ db.rows[dbres.id].version = 3 /\ dbres.updates[dbres.id] = 2

\* C23: the matches are walked by descending score, equal scores in the
\* order given, and used_matches is a prefix of that walk; every chunk up to
\* the first one that does not fit is in the context whole; that first
\* chunk is in it cut to MAX_CONTEXT_CHARS less the characters used and the
\* separator when this space is more than 100, and is left out otherwise;
\* no match after it is used
C23_WalkStopsAtFirstMisfit ==
    bc.done =>
       LET n == Len(bc.matches)
           Before(k, j) ==
               \/ bc.matches[k].score > bc.matches[j].score
               \/ bc.matches[k].score = bc.matches[j].score /\ k < j
           Rank(j) == 1 + Cardinality({k \in 1..n : Before(k, j)})
           Walk == [r \in 1..n |->
                      bc.matches[CHOOSE j \in 1..n : Rank(j) = r]]
           Sep(r) == IF r > 1 THEN 2 ELSE 0
           Total[r \in 0..n] ==
               IF r = 0 THEN 0
               ELSE Total[r - 1] + Sep(r) + Walk[r].content.len
           Misfits == {r \in 1..n : Total[r] > MAX_CONTEXT_CHARS}
           used == Len(bc.used_matches)
       IN  /\ Len(bc.context) = used
           /\ used <= n
           /\ \A i \in 1..used : bc.used_matches[i] = Walk[i]
           /\ IF Misfits = {}
              THEN /\ used = n
                   /\ \A i \in 1..n :
                         bc.context[i].len = Walk[i].content.len
              ELSE LET first == CHOOSE r \in Misfits :
                                   \A q \in Misfits : r <= q
                       space == MAX_CONTEXT_CHARS - Total[first - 1]
                                   - Sep(first)
                   IN  /\ used = IF space > 100 THEN first ELSE first - 1
                       /\ \A i \in 1..(first - 1) :
                             bc.context[i].len = Walk[i].content.len
                       /\ space > 100 => bc.context[first].len = space

\* the best match leaves 100 characters after the separator, so the second
\* is left out, and the third, which would fit, is not used either
C23_Witness ==
    /\ bc.done
    /\ Len(bc.matches) = 3
    /\ bc.matches[1].score < bc.matches[2].score
    /\ bc.matches[2].content.len = 31898
    /\ bc.matches[1].content.len = 16000
    /\ bc.matches[3].content.len = 100
    /\ bc.matches[3].score = bc.matches[1].score
    /\ Len(bc.used_matches) = 1
    /\ bc.used_matches[1] = bc.matches[2]

\* the argument as the caller gave it: the setting only when it was left out
Given(arg, setting) == IF arg = NotPassed THEN setting ELSE arg

\* C24: the wait between attempt i and attempt i+1, i counted from 0, is
\* initial_delay * multiplier^i for the delay and the multiplier of the
\* call: 1, 2 and 4 seconds when they are left to the settings; and there is
\* no wait after the last attempt
C24_WaitsFollowArguments ==
    /\ \A i \in 1..Len(rt.waits) :
          rt.waits[i] =
             Given(rt.args.delay, settings_retry_delay_seconds)
                * Pow(Given(rt.args.backoff_multiplier,
                            settings_retry_backoff_multiplier), i - 1)
    /\ rt.status \in {"raised", "returned"} =>
          Len(rt.waits) = Len(rt.calls) - 1

\* the upsert of the event of msg returns and process_event ends
UpsertReturns == pc = "upsert" /\ pc' = "poll" /\ outcome' = "returned"

\* C25: when the upsert of a create/update event has written its chunks, the
\* points of the same document at chunk indices beyond the new chunk count
\* are in the store as before, with the content and version they had
C25_StaleChunksRemain ==
    [][UpsertReturns =>
          \A p \in DOMAIN store :
             (/\ p.payload.document_id = JobDocId
              /\ p.payload.chunk_index >= Len(JobChunks)) =>
                CopiesIn(p, store') = CopiesIn(p, store)]_vars

\* a two-chunk revision of version 1 was followed by a one-chunk update of
\* version 2: chunk 1 is still there with version 1
C25_Witness ==
    /\ Done /\ outcome = "returned" /\ eff.writes = 1
    /\ JobDocId = "ab12" /\ JobVersion = 2 /\ Len(JobChunks) = 1
    /\ \E p, q \in Points :
          /\ p.payload.document_id = "ab12" /\ q.payload.document_id = "ab12"
          /\ p.payload.chunk_index = 1 /\ p.payload.version = 1
          /\ q.payload.chunk_index = 0 /\ q.payload.version = 2

\* C26: the upsert compares no versions: once it has returned for an event,
\* the point of each chunk of the event carries the content and the version
\* of that event, whatever version was stored before, so the stored version
\* follows the last event processed and can go down
C26_LastWriterWins ==
    [][UpsertReturns =>
          \A i \in 1..Len(JobChunks) :
             LET at == {p \in DOMAIN store' : p.id = JobChunks[i].id} IN
             /\ at # {}
             /\ \A p \in at : /\ p.payload.version = JobVersion
                              /\ p.payload.content = JobChunks[i].content
                              /\ CopiesIn(p, store') = 1]_vars

\* an update of version 2 with two chunks was followed by a create of
\* version 1 with one chunk: chunk 0 went from version 2 to version 1
C26_Witness ==
    /\ Done /\ outcome = "returned" /\ eff.writes = 1
    /\ JobDocId = "ab12" /\ JobVersion = 1 /\ Len(JobChunks) = 1
    /\ \E p, q \in Points :
          /\ p.payload.document_id = "ab12" /\ q.payload.document_id = "ab12"
          /\ p.payload.chunk_index = 1 /\ p.payload.version = 2
          /\ q.payload.chunk_index = 0 /\ q.payload.version = 1

\* C27: the update path removes nothing from the cache but the key
\* query:{document_id} of the event it has processed; every other entry,
\* and so every query_response:v2:* entry, stays with its value
C27_InvalidationMissesResponses ==
    [][ /\ \A k \in DOMAIN cache :
              /\ k \notin DOMAIN cache' =>
                    UpsertReturns /\ k = <<"query", JobDocId>>
              /\ k \in DOMAIN cache' => cache'[k] = cache[k]
              /\ k[1] = "query_response" => k \in DOMAIN cache'
        /\ DOMAIN cache' \subseteq DOMAIN cache ]_vars

\* the event of document ab12 is processed, its key query:ab12 is gone and
\* the response cached for q1 is still there
C27_Witness ==
    /\ Done /\ outcome = "returned" /\ eff.cacheDeletes = 1
    /\ JobDocId = "ab12"
    /\ <<"query", "ab12">> \notin DOMAIN cache
    /\ <<"query_response", "v2", <<"md5", "q1">>>> \in DOMAIN cache
    /\ cache[<<"query_response", "v2", <<"md5", "q1">>>>] = "response"

\* C28: the cache key is made of the query string alone: once the response
\* computed for a request is stored for its query, a request for the same
\* query, whatever its top_k, page and page_size, is answered from the cache
\* with that stored response, sources and pagination of the first request
\* included (the cache answering the read)
C28_KeyIgnoresPaging ==
    (/\ qres.kind = "computed"
     /\ \E k \in DOMAIN redis :
           k[3] = Md5(req.query) /\ redis[k] = JsonDumps(qres.response[1])) =>
       \A r \in Requests :
          r.query = req.query =>
             LET later == ProcessQuery(r, world, cache_client, redis,
                                       "ok", "none", "ok")
             IN  /\ later.kind = "hit"
                 /\ later.response = qres.response
                 /\ later.response[1] =
                       BuildResponse(req, Search(world.ranked, req.top_k),
                                     world.answer)

\* a request for page 1 is answered with the response stored by a request
\* for page 2 of size 1, which is not the response for its own parameters
C28_Witness ==
    /\ qres.kind = "hit"
    /\ Len(qhist) = 1
    /\ qhist[1].kind = "computed"
    /\ ~qhist[1].identical
    /\ req.page = 1
    /\ Len(qres.response[1].pagination) > 0
    /\ qres.response[1].pagination[1].page = 2
    /\ qres.response[1] #
          BuildResponse(req, Search(world.ranked, req.top_k), world.answer)

\* the items given to the handler so far, in the order given
Handed == Flatten(bp.handed)

\* C29: every batch given to the handler has between 1 and batch_size
\* items; the batches, one after the other, are the items added first, in
\* the order of their add calls, so no item is given twice
C29_BatchesAreFIFO ==
    /\ \A k \in 1..Len(bp.handed) :
          Len(bp.handed[k]) >= 1 /\ Len(bp.handed[k]) <= bp.batch_size
    /\ Len(Handed) <= bp.added
    /\ \A i \in 1..Len(Handed) : Handed[i] = i
    /\ Handed \o bp.buffer = [i \in 1..bp.added |-> i]

\* a full batch went out on the second add and the third item went out
\* alone when the timer fired
C29_Witness ==
    /\ bp.batch_size = 2
    /\ bp.handed = <<<<1, 2>>, <<3>>>>
    /\ bp.task = "done"
    /\ bp.lock = "free"

\* C30: every item added is given to the handler in the end, by the add that
\* fills the buffer or by the timer, with no later add and no flush needed
C30_EveryItemIsHanded ==
    \A i \in 1..MaxItems :
       (bp.process_batch /\ bp.added >= i) ~>
          (\E k \in 1..Len(Handed) : Handed[k] = i)

\* C31: at most one timer task is pending and the handler works on at most
\* one batch; the handler runs only while add, the timer task or flush holds
\* the lock, and the buffer changes only in a step of the coroutine that
\* takes the lock or holds it
C31_OneTimerOneBatch ==
    [][ /\ bp'.timers <= 1
        /\ (bp'.timers = 1) = (bp'.task \in {"sleeping", "running"})
        /\ Len(bp'.running) <= 1
        /\ Len(bp'.running) = 1 => bp'.lock \in {"add", "timer", "flush"}
        /\ bp'.task = "running" => bp'.lock = "timer"
        /\ bp'.buffer # bp.buffer =>
              \/ bp.lock = "free"
              \/ bp.lock = "flush" /\ bp'.lock = "flush"
      ]_vars

\* the handler works on the batch of an add while the sleep of the timer
\* task is over: the task waits for the lock
C31_Witness ==
    /\ bp.timers = 1 /\ bp.task = "sleeping" /\ bp.now >= bp.wake
    /\ bp.lock = "add" /\ Len(bp.running) = 1
    /\ Len(bp.buffer) = 0

\* the handler, at work on a batch, ends with an exception in this step
HandlerRaises ==
    /\ Len(bp.running) = 1
    /\ bp'.now = bp.now
    /\ bp' # bp
    /\ bp'.error = "Exception"

\* C32: when the handler raises, the exception ends the add, the flush or
\* the timer task that called it, which gives up the lock and starts no
\* other batch; the items of the batch and of the batches before it are not
\* back in the buffer, and the items still buffered stay as they are
C32_FailedBatchIsNotRequeued ==
    [][HandlerRaises =>
          /\ bp'.lock = "free"
          /\ Len(bp'.running) = 0
          /\ bp'.handed = bp.handed
          /\ bp'.buffer = bp.buffer
          /\ \A i \in 1..Len(Handed) :
                \A j \in 1..Len(bp'.buffer) : bp'.buffer[j] # Handed[i]
      ]_vars

\* the batch of the second add failed; its two items are not in the buffer,
\* which holds the item added after it
C32_Witness ==
    /\ bp.error = "Exception"
    /\ bp.handed = <<<<1, 2>>>>
    /\ bp.buffer = <<3>>
    /\ bp.lock = "free"

\* C33: a flush that has taken the lock ends, for every buffer and every
\* processor, one without a handler included
C33_FlushTerminates == (bp.lock = "flush") ~> (bp.lock # "flush")

RECURSIVE Reverse(_)
Reverse(seq) ==
    IF seq = <<>> THEN <<>> ELSE Append(Reverse(Tail(seq)), Head(seq))

\* C34: the container connects the vector store, the cache, the relational
\* store and the DLQ in this order, and once shutdown has ended the
\* disconnect calls are the connect calls in reverse order
C34_ShutdownReversesInitialize ==
    /\ \A i \in 1..Len(ClientsOf(lc.calls, "connect")) :
          ClientsOf(lc.calls, "connect")[i] =
             <<"vector_db", "cache_service", "database", "dlq_service">>[i]
    /\ lc.phase = "stopped" =>
          ClientsOf(lc.calls, "disconnect") =
             Reverse(ClientsOf(lc.calls, "connect"))

\* C35: while process_event is in flight the vector store, the cache and the
\* DLQ producer it uses are connected, and when shutdown has ended the
\* consumer loop has been stopped
C35_ConsumerStopsBeforeClients ==
    /\ lc.consumer = "handling" =>
          {"vector_db", "cache_service"}
             \cup (IF lc.dlq_enabled THEN {"dlq_service"} ELSE {})
                \subseteq lc.connected
    /\ lc.phase = "stopped" => lc.consumer = "stopped"

\* C36: a buffer holds at most 100 samples, the last ones added, and get(n)
\* gives the min(n, size) samples added last, in the order of their adds
C36_GetReturnsLastN ==
    /\ Len(mt.samples) = Min(mt.added, SAMPLES_MAXLEN)
    /\ \A i \in 1..Len(mt.samples) :
          mt.samples[i] = mt.added - Len(mt.samples) + i
    /\ Len(mt.got) > 0 =>
          LET g == mt.got[1]
              k == Min(g.count, g.size)
          IN  /\ Len(g.result) = k
              /\ \A i \in 1..Len(g.result) :
                    g.result[i] = g.last - Len(g.result) + i

\* C37: the document_id a delete event filters on is the document_id that a
\* create/update event carrying the same id string writes into the payload
\* of its points, which is that string as it came
C37_DeleteFilterIsWrittenId ==
    pc = "delete" =>
       GetDocumentId(EventOf(msg)[1]).id = EventDict(msg)["id"]

\* the event data of m has the nested shape: an `after` object and no id or
\* content among its top-level keys
IsNested(m) ==
    /\ IsDict(m.value)
    /\ IsDict(EventData(m.value))
    /\ "after" \in DOMAIN EventDict(m)
    /\ {"id", "content"} \cap DOMAIN EventDict(m) = {}

\* C38: a create/update payload whose document columns appear only inside an
\* `after` object causes no vector-store write and no cache delete, raises no
\* error and puts no message on the dead-letter topic: process_event returns
\* at the check of the top-level id and content.
C38_NestedPayloadIsDropped ==
    [][IsNested(msg') =>
          /\ store' = store
          /\ cache' = cache
          /\ dlqTopic' = dlqTopic
          /\ eff' = NoEffect
          /\ outcome' \in {"none", "returned"}
          /\ error' = ""
          /\ dlqCall' = <<>>
          /\ pc' \in {"handle", "poll"}]_vars

C38_Witness ==
    /\ IsNested(msg)
    /\ "payload" \in DOMAIN msg.value.d
    /\ EventOf(msg)[1].op = "c"
    /\ outcome = "returned"
    /\ pc = "poll"
    /\ store = EmptyBag

ServiceErrors == {"EmbeddingError", "VectorDBError", "LLMError"}

\* the keys whose entry a step adds or rewrites
KeysWritten(before, after) ==
    {k \in DOMAIN after : k \notin DOMAIN before \/ after[k] # before[k]}

\* C39: a process_query call that fails in the embedding, the search or the
\* LLM call makes no cache write and leaves the keyspace as it was; an entry
\* is added or rewritten only by a call that went through to its end, and
\* then it is the entry of the response that call built.
C39_FailedQueryLeavesCache ==
    [][/\ (qres'.kind = "raised" /\ qres'.error \in ServiceErrors) =>
             /\ qeff'.cacheWrites = 0
             /\ KeysWritten(redis, redis') = {}
             /\ <<req, qres, qeff, qhist>>' # <<req, qres, qeff, qhist>>
                   => redis' = redis
       /\ KeysWritten(redis, redis') # {} =>
             /\ qres'.kind = "computed"
             /\ qeff'.llm = 1
             /\ KeysWritten(redis, redis') = {CacheKeyOf(req')}
             /\ redis'[CacheKeyOf(req')] = JsonDumps(qres'.response[1])]_vars

C39_Witness ==
    /\ qres.kind = "raised"
    /\ qres.error = "LLMError"
    /\ qeff.llm = 1
    /\ cache_client
    /\ Len(qhist) > 0
    /\ qhist[1].kind = "computed"
    /\ DOMAIN redis = {GetCacheKey("q1")}
    /\ req.query = "q2"

\* C40: the consumer takes the next message of a partition, the one of the
\* next offset, only when the handling of the message before it has ended
\* (pc is back at the poll, after every retry, backoff wait and dead-letter
\* send); the store and the dead-letter topic change only in a step of the
\* message being handled, and an upsert adds points of that message only.
C40_OneMessageAtATime ==
    [][/\ nextOffset' # nextOffset =>
             /\ pc = "poll"
             /\ pc' = "handle"
             /\ msg'.offset = nextOffset[msg'.partition]
             /\ nextOffset' = [nextOffset EXCEPT ![msg'.partition] = @ + 1]
             /\ store' = store
             /\ dlqTopic' = dlqTopic
       /\ store' # store =>
             /\ pc \in {"upsert", "delete"}
             /\ msg' = msg
             /\ pc = "upsert" =>
                   \A p \in DOMAIN store' \ DOMAIN store :
                      p.payload.document_id = JobDocId
       /\ dlqTopic' # dlqTopic => pc = "dlq" /\ msg' = msg]_vars

C40_Witness ==
    /\ msg.offset = 1
    /\ pc = "sleep_upsert"
    /\ Len(dlqTopic) = 1
    /\ <<0, 0>> \in failed
    /\ attempt > 0

====
